---- MODULE Spec2Model ----
(***************************************************************************)
(* Model of the AI task assistant of task_manager_django: the fallback     *)
(* tool-calling pipeline (ai/services1.py), its handlers (ai/tools.py) and *)
(* the Task table they write (tasks/models.py).                            *)
(*                                                                         *)
(* The language model is the environment: every completion is an arbitrary *)
(* text, drawn from the catalogs below, or a transport error.              *)
(***************************************************************************)
EXTENDS Integers, Sequences, FiniteSets, TLC

(***************************************************************************)
(* JSON values as Python sees them after json.loads.  Every value is a     *)
(* record of the same shape so that values of different types compare:     *)
(*   t      "null" "bool" "int" "str" "list" "obj", or "exc" for a raised  *)
(*          Python exception (s is then the exception class)               *)
(*   s      the characters of a str                                        *)
(*   n      the number of an int, 0/1 for a bool                           *)
(*   items  the elements of a list, the values of an obj                   *)
(*   keys   the keys of an obj                                             *)
(***************************************************************************)
JNull == [t |-> "null", s |-> "", n |-> 0, items |-> <<>>, keys |-> <<>>]

JBool(b) == [t |-> "bool", s |-> "", n |-> IF b THEN 1 ELSE 0, items |-> <<>>, keys |-> <<>>]

JInt(k) == [t |-> "int", s |-> "", n |-> k, items |-> <<>>, keys |-> <<>>]

JStr(str) == [t |-> "str", s |-> str, n |-> 0, items |-> <<>>, keys |-> <<>>]

JList(seq) == [t |-> "list", s |-> "", n |-> 0, items |-> seq, keys |-> <<>>]

JObj(ks, vs) == [t |-> "obj", s |-> "", n |-> 0, items |-> vs, keys |-> ks]

Exc(cls) == [t |-> "exc", s |-> cls, n |-> 0, items |-> <<>>, keys |-> <<>>]

IsExc(v) == v.t = "exc"

\* Python truth value: None, False, 0, "", [] and {} are falsy.
Truthy(v) ==
    CASE v.t = "null" -> FALSE
      [] v.t = "bool" -> v.n = 1
      [] v.t = "int"  -> v.n # 0
      [] v.t = "str"  -> v.s # ""
      [] OTHER        -> Len(v.items) > 0

\* The words of this model that occur inside a str (Python's substring test
\* `word in text`); a str always contains itself.
Substrings(str) ==
    CASE str = "no tools apply"       -> {"tools", "tool"}
      [] str = "see the user_message" -> {"user_message"}
      [] OTHER                        -> {}

HasKey(v, k) == \E i \in 1..Len(v.keys) : v.keys[i] = k

KeyIndex(v, k) == CHOOSE i \in 1..Len(v.keys) : v.keys[i] = k

\* `k in v`: key of a dict, element of a list, substring of a str; TypeError
\* for a value that is not iterable.
PyIn(k, v) ==
    CASE v.t = "obj"  -> JBool(HasKey(v, k))
      [] v.t = "list" -> JBool(\E i \in 1..Len(v.items) : v.items[i] = JStr(k))
      [] v.t = "str"  -> JBool(k = v.s \/ k \in Substrings(v.s))
      [] OTHER        -> Exc("TypeError")

\* `v[k]` with a str key.
GetItem(v, k) ==
    CASE v.t = "obj"  -> IF HasKey(v, k) THEN v.items[KeyIndex(v, k)] ELSE Exc("KeyError")
      [] OTHER        -> Exc("TypeError")

\* `v.get(k, default)`: only a dict has the method.
PyGet(v, k, default) ==
    CASE v.t = "obj"  -> IF HasKey(v, k) THEN v.items[KeyIndex(v, k)] ELSE default
      [] OTHER        -> Exc("AttributeError")

\* `for x in v`: the elements of a list, the keys of a dict, the characters
\* of a str; TypeError otherwise.  The result is a list or an exception.
PyIter(v) ==
    CASE v.t = "list" -> v
      [] v.t = "obj"  -> JList([i \in 1..Len(v.keys) |-> JStr(v.keys[i])])
      [] v.t = "str"  -> JList(IF v.s = "" THEN <<>> ELSE <<JStr("c")>>)
      [] OTHER        -> Exc("TypeError")

(***************************************************************************)
(* A completion text: message.content of a chat completion.                *)
(*   form "none"      content is None                                      *)
(*        "empty"     content is ""                                        *)
(*        "prose"     words only, no brace, bracket or fence               *)
(*        "pure"      the text is exactly the JSON document body           *)
(*        "fenced"    prose around ```json <body> ```                      *)
(*        "embedded"  prose around the JSON document body                  *)
(* Strings inside a body hold no brace, bracket or fence.                  *)
(***************************************************************************)
Text(form, body) == [form |-> form, body |-> body]

RECURSIVE MaxObjs(_)
\* The outermost objects of a document, in text order.
MaxObjs(v) ==
    IF v.t = "obj" THEN <<v>>
    ELSE IF v.t = "list" /\ Len(v.items) > 0
         THEN MaxObjs(v.items[1]) \o MaxObjs(JList(Tail(v.items)))
         ELSE <<>>

\* extract_json_like on prose around a list: the {(.*)} pattern wins when the
\* first { and the last } enclose one object, then the \[(.*)\] pattern when
\* the brackets enclose a single object or list, then the {...} and [...]
\* spans of the final attempt.
ExtractEmbeddedList(body) ==
    LET objs == MaxObjs(body) IN
    IF Len(objs) = 1 /\ Len(objs[1].keys) > 0 THEN objs[1]
    ELSE IF Len(body.items) = 1 /\ body.items[1].t \in {"obj", "list"} THEN body.items[1]
    ELSE IF Len(objs) = 1 THEN objs[1]
    ELSE body

\* None (JNull) when the text holds no JSON.  A scalar is found only when it
\* is the whole text: inside a fence or prose the candidate is wrapped in
\* braces and fails to parse.
extract_json_like(text) ==
    CASE text.form \in {"none", "empty", "prose"} -> JNull
      [] text.form = "pure" -> text.body
      [] text.form = "fenced" ->
            IF text.body.t \in {"obj", "list"} THEN text.body ELSE JNull
      [] OTHER ->
            IF text.body.t = "obj" THEN text.body
            ELSE IF text.body.t = "list" THEN ExtractEmbeddedList(text.body)
            ELSE JNull

(***************************************************************************)
(* Dates and times.  A date string is parsed twice in the code, by         *)
(* datetime.strptime(_, "%Y-%m-%d") and by date.fromisoformat; the two     *)
(* disagree on "2025-1-3", which only strptime accepts.  Days are counted  *)
(* from 2024-12-31; 0 stands for "does not parse".                         *)
(***************************************************************************)
strptime_date(str) ==
    CASE str = "2025-01-01" -> 1
      [] str = "2025-01-02" -> 2
      [] str = "2025-1-3"   -> 3
      [] OTHER              -> 0

fromisoformat(str) ==
    CASE str = "2025-01-01" -> 1
      [] str = "2025-01-02" -> 2
      [] OTHER              -> 0

\* datetime.strptime(_, "%H:%M:%S") accepts the string.
strptime_time_ok(str) == str \in {"09:00:00", "17:30:00"}

\* validate_due_date: the day, ValueError for a string that does not parse,
\* TypeError (from strptime) for a value that is not a str.
validate_due_date(v) ==
    IF v.t # "str" THEN Exc("TypeError")
    ELSE IF strptime_date(v.s) = 0 THEN Exc("ValueError")
    ELSE JInt(strptime_date(v.s))

(***************************************************************************)
(* The database.  A Task row's id is its position in tasks (the pipeline   *)
(* deletes nothing); due_date 0 and category 0 are NULL.                   *)
(***************************************************************************)
Users == {"u1", "u2"}

\* Category rows, id |-> owner.
CategoryOwner == [c \in {1, 2} |-> IF c = 1 THEN "u1" ELSE "u2"]

TaskRow(user, title, description, due, st, et, cat, status, priority) ==
    [user |-> user, title |-> title, description |-> description, due_date |-> due,
     start_time |-> st, end_time |-> et, category |-> cat, status |-> status,
     priority |-> priority]

\* What a CharField stores for a value (str() of it).
CharOf(v) ==
    CASE v.t = "str" -> v.s
      [] v.t = "int" -> ToString(v.n)
      [] v.t = "bool" -> IF v.n = 1 THEN "True" ELSE "False"
      [] OTHER -> "<repr>"

\* A handler's return value.  error "-" and count -1 stand for an absent key.
Payload(status, message, error, count) ==
    [status |-> status, message |-> message, error |-> error, count |-> count]

\* The outcome of calling a handler: a returned payload, or the exception
\* that left the handler (exc # ""), and the database afterwards.
Outcome(exc, payload, tasks, activity) ==
    [exc |-> exc, payload |-> payload, tasks |-> tasks, activity |-> activity]

NoPayload == Payload("-", "-", "-", -1)

\* Binding **args to `def f(user, **kwargs)`: args must be a mapping, and a
\* key "user" collides with the positional parameter.
BindKwargs(args) ==
    IF args.t # "obj" THEN "TypeError"
    ELSE IF HasKey(args, "user") THEN "TypeError"
    ELSE ""

\* Binding **args to `def f(user, start_date, end_date)`.
BindDateRange(args) ==
    IF args.t # "obj" THEN "TypeError"
    ELSE IF \A i \in 1..Len(args.keys) : args.keys[i] \in {"start_date", "end_date"}
         THEN IF HasKey(args, "start_date") /\ HasKey(args, "end_date") THEN "" ELSE "TypeError"
         ELSE "TypeError"

\* post_save of a created Task: one ActivityLog row with action "create".
post_save_created(activity, id) == Append(activity, [action |-> "create", object_id |-> id])

\* The first exception among the checks of create_task, in program order; ""
\* when the row is created.
CreateTaskError(user, kwargs) ==
    LET due == IF HasKey(kwargs, "due_date")
               THEN validate_due_date(GetItem(kwargs, "due_date")) ELSE JNull
        timeErr(k) ==
            IF ~HasKey(kwargs, k) THEN ""
            ELSE IF GetItem(kwargs, k).t # "str" THEN "TypeError"
            ELSE IF strptime_time_ok(GetItem(kwargs, k).s) THEN "" ELSE "ValueError"
        cat == GetItem(kwargs, "category_id")
        catErr ==
            IF ~HasKey(kwargs, "category_id") THEN ""
            ELSE IF cat.t = "str" THEN "ValueError"
            ELSE IF cat.t \in {"list", "obj"} THEN "TypeError"
            ELSE IF cat.t = "int" /\ cat.n \in DOMAIN CategoryOwner /\ CategoryOwner[cat.n] = user
                 THEN "" ELSE "DoesNotExist"
        prio == GetItem(kwargs, "priority")
        rowErr ==
            IF ~HasKey(kwargs, "title") THEN "KeyError"
            ELSE IF GetItem(kwargs, "title").t = "null" THEN "IntegrityError"
            ELSE IF HasKey(kwargs, "status") /\ GetItem(kwargs, "status").t = "null" THEN "IntegrityError"
            ELSE IF HasKey(kwargs, "priority") /\ prio.t = "null" THEN "IntegrityError"
            ELSE IF HasKey(kwargs, "priority") /\ prio.t \notin {"int", "bool"} THEN "ValueError"
            ELSE ""
    IN  IF IsExc(due) THEN due.s
        ELSE IF timeErr("start_time") # "" THEN timeErr("start_time")
        ELSE IF timeErr("end_time") # "" THEN timeErr("end_time")
        ELSE IF catErr # "" THEN catErr
        ELSE rowErr

\* The row Task.objects.create writes for the arguments.
CreateTaskRow(user, kwargs) ==
    TaskRow(user,
            CharOf(GetItem(kwargs, "title")),
            IF HasKey(kwargs, "description") THEN CharOf(GetItem(kwargs, "description")) ELSE "",
            IF HasKey(kwargs, "due_date") THEN validate_due_date(GetItem(kwargs, "due_date")).n ELSE 0,
            IF HasKey(kwargs, "start_time") THEN GetItem(kwargs, "start_time").s ELSE "",
            IF HasKey(kwargs, "end_time") THEN GetItem(kwargs, "end_time").s ELSE "",
            IF HasKey(kwargs, "category_id") THEN GetItem(kwargs, "category_id").n ELSE 0,
            IF HasKey(kwargs, "status") THEN CharOf(GetItem(kwargs, "status")) ELSE "pending",
            IF HasKey(kwargs, "priority") THEN GetItem(kwargs, "priority").n ELSE 1)

\* create_task as it would be with get_or_create on (user, title, due_date).
create_task_deduplicating(user, kwargs, tasks, activity) ==
    LET err == CreateTaskError(user, kwargs)
        row == CreateTaskRow(user, kwargs)
        exists == \E i \in 1..Len(tasks) :
                     /\ tasks[i].user = user /\ tasks[i].title = row.title
                     /\ tasks[i].due_date = row.due_date
    IN  IF err = "" /\ exists
        THEN Outcome("", Payload("success", "Task created successfully.", "-", -1), tasks, activity)
        ELSE IF err = ""
        THEN Outcome("", Payload("success", "Task created successfully.", "-", -1),
                     Append(tasks, row), post_save_created(activity, Len(tasks) + 1))
        ELSE Outcome("", Payload("error", "An error occurred while creating the task.", err, -1),
                     tasks, activity)

create_task(user, kwargs, tasks, activity) ==
    LET err == CreateTaskError(user, kwargs) IN
    CASE err = "" ->
            Outcome("", Payload("success", "Task created successfully.", "-", -1),
                    Append(tasks, CreateTaskRow(user, kwargs)),
                    post_save_created(activity, Len(tasks) + 1))
      [] err = "DoesNotExist" ->
            Outcome("", Payload("error", "Category not found or access denied.", "invalid_category", -1),
                    tasks, activity)
      [] err = "ValueError" ->
            Outcome("", Payload("error", "ValueError", "invalid_format", -1), tasks, activity)
      [] OTHER ->
            Outcome("", Payload("error", "An error occurred while creating the task.", err, -1),
                    tasks, activity)

\* The result of search_tasks: the ids of the matching rows, or the
\* exception that left it (exc # "").
Found(exc, ids) == [exc |-> exc, ids |-> ids]

\* search_tasks as it would be without the user filter of
\* Task.objects.filter(user=user).
search_tasks_all_users(user, filters, tasks) ==
    LET own == 1..Len(tasks)
        due == GetItem(filters, "due_date")
        st  == GetItem(filters, "status")
        passDue(i) ==
            ~HasKey(filters, "due_date") \/ fromisoformat(due.s) = 0
            \/ tasks[i].due_date = fromisoformat(due.s)
        passStatus(i) ==
            ~HasKey(filters, "status") \/ tasks[i].status = CharOf(st)
    IN  IF Len(filters.keys) = 0 THEN Found("", own)
        ELSE Found("", {i \in own : passDue(i) /\ passStatus(i)})

\* search_tasks: the user's rows that pass every filter the function reads.
\* A due_date or date range that date.fromisoformat rejects is skipped
\* (`except ValueError: pass`); "priority" is not read at all.
search_tasks(user, filters, tasks) ==
    LET own == {i \in 1..Len(tasks) : tasks[i].user = user}
        cat == GetItem(filters, "category_id")
        due == GetItem(filters, "due_date")
        sd  == GetItem(filters, "start_date")
        ed  == GetItem(filters, "end_date")
        st  == GetItem(filters, "status")
        hasRange == HasKey(filters, "start_date") /\ HasKey(filters, "end_date")
        err ==
            IF HasKey(filters, "category_id") /\ cat.t = "str" THEN "ValueError"
            ELSE IF HasKey(filters, "category_id") /\ cat.t \in {"list", "obj"} THEN "TypeError"
            ELSE IF HasKey(filters, "due_date") /\ due.t # "str" THEN "TypeError"
            ELSE IF hasRange /\ sd.t # "str" THEN "TypeError"
            ELSE IF hasRange /\ fromisoformat(sd.s) # 0 /\ ed.t # "str" THEN "TypeError"
            ELSE ""
        passCat(i) ==
            ~HasKey(filters, "category_id")
            \/ tasks[i].category = (IF cat.t = "null" THEN 0 ELSE cat.n)
        passDue(i) ==
            ~HasKey(filters, "due_date") \/ fromisoformat(due.s) = 0
            \/ tasks[i].due_date = fromisoformat(due.s)
        passRange(i) ==
            ~hasRange \/ fromisoformat(sd.s) = 0 \/ fromisoformat(ed.s) = 0
            \/ (tasks[i].due_date # 0 /\ fromisoformat(sd.s) <= tasks[i].due_date
                /\ tasks[i].due_date <= fromisoformat(ed.s))
        passStatus(i) ==
            ~HasKey(filters, "status") \/ tasks[i].status = CharOf(st)
    IN  IF Len(filters.keys) = 0 THEN Found("", own)
        ELSE IF err # "" THEN Found(err, {})
        ELSE Found("", {i \in own : passCat(i) /\ passDue(i) /\ passRange(i) /\ passStatus(i)})

\* status_mapping of set_task_status; "" when the key is not in the mapping.
\* True and False hash and compare as 1 and 0.
status_mapping(status) ==
    IF status.t \in {"int", "bool"}
    THEN CASE status.n = 0 -> "pending"
           [] status.n = 1 -> "in_progress"
           [] status.n = 2 -> "completed"
           [] OTHER        -> ""
    ELSE ""

\* kwargs without the popped "status".
WithoutKey(obj, k) ==
    LET kept == SelectSeq([i \in 1..Len(obj.keys) |-> i], LAMBDA i : obj.keys[i] # k)
    IN  JObj([j \in 1..Len(kept) |-> obj.keys[kept[j]]], [j \in 1..Len(kept) |-> obj.items[kept[j]]])

\* set_task_status as it would be with status_mapping.get(status, "pending")
\* in place of the membership test.
set_task_status_unchecked(user, kwargs, tasks, activity) ==
    LET status == GetItem(kwargs, "status")
        status_str == IF status_mapping(status) = "" THEN "pending" ELSE status_mapping(status)
        matching == search_tasks(user, WithoutKey(kwargs, "status"), tasks)
    IN  IF matching.exc # "" \/ matching.ids = {}
        THEN Outcome("", Payload("success", "No tasks found matching your criteria.", "-", -1), tasks, activity)
        ELSE Outcome("", Payload("success", "Updated task(s).", "-", Cardinality(matching.ids)),
                     [i \in 1..Len(tasks) |-> IF i \in matching.ids
                                               THEN [tasks[i] EXCEPT !.status = status_str]
                                               ELSE tasks[i]],
                     activity)

\* QuerySet.update sends no signal: the activity log is untouched.
set_task_status(user, kwargs, tasks, activity) ==
    LET status == GetItem(kwargs, "status")
        status_str == status_mapping(status)
        matching == search_tasks(user, WithoutKey(kwargs, "status"), tasks)
        failed(err) == Outcome("", Payload("error", "An error occurred while updating task status.", err, -1),
                               tasks, activity)
    IN  IF ~HasKey(kwargs, "status") THEN failed("KeyError")
        ELSE IF status.t \in {"list", "obj"} THEN failed("TypeError")
        ELSE IF status_str = ""
        THEN Outcome("", Payload("error", "Invalid status.", "invalid_status", -1), tasks, activity)
        ELSE IF matching.exc # "" THEN failed(matching.exc)
        ELSE IF matching.ids = {}
        THEN Outcome("", Payload("success", "No tasks found matching your criteria.", "-", -1), tasks, activity)
        ELSE Outcome("", Payload("success", "Updated task(s).", "-", Cardinality(matching.ids)),
                     [i \in 1..Len(tasks) |-> IF i \in matching.ids
                                               THEN [tasks[i] EXCEPT !.status = status_str]
                                               ELSE tasks[i]],
                     activity)

\* set_task_status in its two queries, for the interleavings of concurrent
\* requests: matching_tasks.exists() is one SELECT, matching_tasks.update()
\* a later UPDATE that evaluates the same filters again.
set_task_status_exists(user, kwargs, tasks) ==
    /\ HasKey(kwargs, "status")
    /\ status_mapping(GetItem(kwargs, "status")) # ""
    /\ search_tasks(user, WithoutKey(kwargs, "status"), tasks).exc = ""
    /\ search_tasks(user, WithoutKey(kwargs, "status"), tasks).ids # {}

set_task_status_update(user, kwargs, tasks, activity) ==
    LET status_str == status_mapping(GetItem(kwargs, "status"))
        matching == search_tasks(user, WithoutKey(kwargs, "status"), tasks)
    IN  Outcome("", Payload("success", "Updated task(s).", "-", Cardinality(matching.ids)),
                [i \in 1..Len(tasks) |-> IF i \in matching.ids
                                          THEN [tasks[i] EXCEPT !.status = status_str]
                                          ELSE tasks[i]],
                activity)

search_tasks_by_date_range(user, args, tasks, activity) ==
    LET start_date == GetItem(args, "start_date")
        end_date == GetItem(args, "end_date")
        start_date_obj == validate_due_date(start_date)
        end_date_obj == validate_due_date(end_date)
        found == search_tasks(user, JObj(<<"start_date", "end_date">>, <<start_date, end_date>>), tasks)
        failed(msg) == Outcome("", Payload("error", msg, "-", -1), tasks, activity)
    IN  IF IsExc(start_date_obj)
        THEN failed(IF start_date_obj.s = "ValueError" THEN "Invalid date format. Use YYYY-MM-DD."
                    ELSE "An error occurred while searching tasks.")
        ELSE IF IsExc(end_date_obj)
        THEN failed(IF end_date_obj.s = "ValueError" THEN "Invalid date format. Use YYYY-MM-DD."
                    ELSE "An error occurred while searching tasks.")
        ELSE IF end_date_obj.n < start_date_obj.n THEN failed("End date cannot be before start date.")
        ELSE IF found.exc # "" THEN failed("An error occurred while searching tasks.")
        ELSE Outcome("", Payload("success", "Found tasks.", "-", Cardinality(found.ids)), tasks, activity)

\* What execute_tool_call returns for a name that is no handler: a dict with
\* the keys user_message and tool_result, not an exception.
UnknownTool == Payload("-", "Unknown tool function", "-", -1)

execute_tool_call(user, tool_name, args, tasks, activity) ==
    IF tool_name = JStr("create_task")
    THEN IF BindKwargs(args) # "" THEN Outcome(BindKwargs(args), NoPayload, tasks, activity)
         ELSE create_task(user, args, tasks, activity)
    ELSE IF tool_name = JStr("set_task_status")
    THEN IF BindKwargs(args) # "" THEN Outcome(BindKwargs(args), NoPayload, tasks, activity)
         ELSE set_task_status(user, args, tasks, activity)
    ELSE IF tool_name = JStr("search_tasks_by_date_range")
    THEN IF BindDateRange(args) # "" THEN Outcome(BindDateRange(args), NoPayload, tasks, activity)
         ELSE search_tasks_by_date_range(user, args, tasks, activity)
    ELSE Outcome("", UnknownTool, tasks, activity)

(***************************************************************************)
(* The value get_ai_response returns.  user_message is one of              *)
(*   raw    the text of a completion, verbatim                             *)
(*   json   a value taken from the model's JSON                            *)
(*   fixed  a string literal of the code                                   *)
(*   error  "Error: " followed by str(e) of the exception class in val     *)
(***************************************************************************)
\* No completion received.
NoText == Text("absent", JNull)

RawMsg(text) == [kind |-> "raw", text |-> text, val |-> JNull]

JsonMsg(v) == [kind |-> "json", text |-> NoText, val |-> v]

FixedMsg(str) == [kind |-> "fixed", text |-> NoText, val |-> JStr(str)]

ErrorMsg(cls) == [kind |-> "error", text |-> NoText, val |-> JStr(cls)]

\* has_details is FALSE when the returned dict has no "details" key.
Response(user_message, has_details, details, tool_results) ==
    [user_message |-> user_message, has_details |-> has_details, details |-> details,
     tool_results |-> tool_results]

NoResponse == Response(FixedMsg("-"), FALSE, JNull, <<>>)

\* The result of a stage: "return" (the function returns response), "raise"
\* (exception exc leaves the function) or "continue" with the stage's value.
Return(path, response) == [kind |-> "return", path |-> path, response |-> response, exc |-> "", value |-> JNull]

Raise(cls) == [kind |-> "raise", path |-> "exception", response |-> NoResponse, exc |-> cls, value |-> JNull]

Continue(value) == [kind |-> "continue", path |-> "", response |-> NoResponse, exc |-> "", value |-> value]

\* ToolsNeeded as it would be without the `if t["tool"]` of the comprehension.
ToolsNeeded_keeping_nulls(elems) ==
    LET names == [i \in 1..Len(elems) |-> GetItem(elems[i], "tool")]
        bad == {i \in 1..Len(elems) : IsExc(names[i])}
    IN  IF bad # {} THEN names[CHOOSE i \in bad : \A j \in bad : i <= j]
        ELSE JList(names)

RECURSIVE ToolsNeeded(_)
\* [t["tool"] for t in tools if t["tool"]] over the elements still to visit:
\* a list, or the first exception raised.
ToolsNeeded(elems) ==
    IF Len(elems) = 0 THEN JList(<<>>)
    ELSE LET name == GetItem(elems[1], "tool")
             rest == ToolsNeeded(Tail(elems))
         IN  IF IsExc(name) THEN name
             ELSE IF IsExc(rest) THEN rest
             ELSE IF Truthy(name) THEN JList(<<name>> \o rest.items) ELSE rest

\* select_tools as it would be if the no-tool return ignored the JSON's
\* user_message.
select_tools_fixed_message(text) ==
    LET parsed == extract_json_like(text)
        tool_selection == IF parsed.t = "list" THEN parsed.items[1] ELSE parsed
        tools == GetItem(tool_selection, "tools")
        tools_needed ==
            IF IsExc(PyIn("tools", tool_selection)) THEN PyIn("tools", tool_selection)
            ELSE IF Truthy(PyIn("tools", tool_selection))
            THEN IF IsExc(tools) THEN tools
                 ELSE IF IsExc(PyIter(tools)) THEN PyIter(tools)
                 ELSE ToolsNeeded(PyIter(tools).items)
            ELSE IF Truthy(PyIn("tool", tool_selection))
            THEN IF IsExc(GetItem(tool_selection, "tool")) THEN GetItem(tool_selection, "tool")
                 ELSE IF Truthy(GetItem(tool_selection, "tool"))
                      THEN JList(<<GetItem(tool_selection, "tool")>>) ELSE JList(<<>>)
            ELSE JList(<<>>)
    IN  IF ~Truthy(parsed) THEN Return("no_json", Response(RawMsg(text), FALSE, JNull, <<>>))
        ELSE IF IsExc(tools_needed) THEN Raise(tools_needed.s)
        ELSE IF Truthy(tools_needed) THEN Continue(tools_needed)
        ELSE Return("no_tool", Response(FixedMsg("No tools needed, but here's the response."), FALSE, JNull, <<>>))

\* Stage 1 after the completion (services1.py 130-153): the tools needed, or
\* one of the two no-tool returns.
select_tools(text) ==
    LET parsed == extract_json_like(text)
        tool_selection == IF parsed.t = "list" THEN parsed.items[1] ELSE parsed
        has_tools == PyIn("tools", tool_selection)
        has_tool == PyIn("tool", tool_selection)
        tools == GetItem(tool_selection, "tools")
        tool == GetItem(tool_selection, "tool")
        tools_needed ==
            IF IsExc(has_tools) THEN has_tools
            ELSE IF Truthy(has_tools)
            THEN IF IsExc(tools) THEN tools
                 ELSE IF IsExc(PyIter(tools)) THEN PyIter(tools)
                 ELSE ToolsNeeded(PyIter(tools).items)
            ELSE IF Truthy(has_tool)
            THEN IF IsExc(tool) THEN tool
                 ELSE IF Truthy(tool) THEN JList(<<tool>>) ELSE JList(<<>>)
            ELSE JList(<<>>)
        has_message == PyIn("user_message", tool_selection)
        message == GetItem(tool_selection, "user_message")
    IN  IF ~Truthy(parsed) THEN Return("no_json", Response(RawMsg(text), FALSE, JNull, <<>>))
        ELSE IF IsExc(tools_needed) THEN Raise(tools_needed.s)
        ELSE IF Truthy(tools_needed) THEN Continue(tools_needed)
        ELSE IF ~Truthy(has_message)
        THEN Return("no_tool", Response(FixedMsg("No tools needed, but here's the response."), FALSE, JNull, <<>>))
        ELSE IF IsExc(message) THEN Raise(message.s)
        ELSE Return("no_tool", Response(JsonMsg(message), FALSE, JNull, <<>>))

\* extract_tool_calls as it would be without `if not tool_calls_data`.
extract_tool_calls_unchecked(text) ==
    LET parsed == extract_json_like(text)
        tool_calls_data == IF parsed.t = "list" THEN parsed.items[1] ELSE parsed
        tool_calls == PyGet(tool_calls_data, "tool_calls", JList(<<>>))
    IN  IF IsExc(tool_calls) THEN Raise(tool_calls.s)
        ELSE IF ~Truthy(tool_calls)
        THEN Return("no_calls", Response(FixedMsg("No tool calls were generated"), FALSE, JNull, <<>>))
        ELSE Continue(tool_calls)

\* Stage 2 after the completion (services1.py 194-211): the tool calls, or one
\* of the two early returns.
extract_tool_calls(text) ==
    LET parsed == extract_json_like(text)
        tool_calls_data == IF parsed.t = "list" THEN parsed.items[1] ELSE parsed
        tool_calls == PyGet(tool_calls_data, "tool_calls", JList(<<>>))
    IN  IF ~Truthy(parsed)
        THEN Return("parse_failed", Response(FixedMsg("Failed to parse tool arguments"), FALSE, JNull, <<>>))
        ELSE IF IsExc(tool_calls) THEN Raise(tool_calls.s)
        ELSE IF ~Truthy(tool_calls)
        THEN Return("no_calls", Response(FixedMsg("No tool calls were generated"), FALSE, JNull, <<>>))
        ELSE Continue(tool_calls)

\* One entry of tool_results: the call's result under "result", or str(e)
\* under "error".
ResultEntry(tool_name, args, payload) == [tool |-> tool_name, args |-> args, key |-> "result", payload |-> payload]

ErrorEntry(tool_name, args, cls) ==
    [tool |-> tool_name, args |-> args, key |-> "error", payload |-> Payload("-", "-", cls, -1)]

\* One iteration of the execution loop (services1.py 215-235) on `call`.
\* exc # "" when the iteration raises outside the try; dispatched tells
\* whether execute_tool_call was called.
Step(exc, dispatched, tool_results, tasks, activity) ==
    [exc |-> exc, dispatched |-> dispatched, tool_results |-> tool_results, tasks |-> tasks,
     activity |-> activity]

\* execute_call as it would be if a name that is no handler raised outside
\* the try.
execute_call_aborting(user, call, tool_results, tasks, activity) ==
    LET tool_name == PyGet(call, "tool", JNull)
        args == PyGet(call, "args", JObj(<<>>, <<>>))
        out == execute_tool_call(user, tool_name, args, tasks, activity)
    IN  IF IsExc(tool_name) THEN Step(tool_name.s, FALSE, tool_results, tasks, activity)
        ELSE IF ~Truthy(tool_name) THEN Step("", FALSE, tool_results, tasks, activity)
        ELSE IF out.exc = "" /\ out.payload = UnknownTool
        THEN Step("ValueError", FALSE, tool_results, tasks, activity)
        ELSE IF out.exc # ""
        THEN Step("", TRUE, Append(tool_results, ErrorEntry(tool_name, args, out.exc)), out.tasks, out.activity)
        ELSE Step("", TRUE, Append(tool_results, ResultEntry(tool_name, args, out.payload)), out.tasks, out.activity)

execute_call(user, call, tool_results, tasks, activity) ==
    LET tool_name == PyGet(call, "tool", JNull)
        args == PyGet(call, "args", JObj(<<>>, <<>>))
        out == execute_tool_call(user, tool_name, args, tasks, activity)
    IN  IF IsExc(tool_name) THEN Step(tool_name.s, FALSE, tool_results, tasks, activity)
        ELSE IF ~Truthy(tool_name) THEN Step("", FALSE, tool_results, tasks, activity)
        ELSE IF out.exc # ""
        THEN Step("", TRUE, Append(tool_results, ErrorEntry(tool_name, args, out.exc)), out.tasks, out.activity)
        ELSE Step("", TRUE, Append(tool_results, ResultEntry(tool_name, args, out.payload)), out.tasks, out.activity)

\* summarize as it would be without the try/except around final_data.get.
summarize_unguarded(text, tool_results) ==
    LET final_data == extract_json_like(text)
        user_message == PyGet(final_data, "user_message", JNull)
        details == PyGet(final_data, "details", JList(<<>>))
    IN  IF IsExc(user_message) THEN Raise(user_message.s)
        ELSE Return("summarized",
                    Response(IF HasKey(final_data, "user_message") THEN JsonMsg(user_message) ELSE RawMsg(text),
                             TRUE, details, tool_results))

\* Stage 3 after the completion (services1.py 261-274).
summarize(text, tool_results) ==
    LET final_data == extract_json_like(text)
        user_message == PyGet(final_data, "user_message", JNull)
        details == PyGet(final_data, "details", JList(<<>>))
    IN  IF IsExc(user_message)
        THEN Return("summary_fallback", Response(RawMsg(text), TRUE, JList(<<>>), tool_results))
        ELSE Return("summarized",
                    Response(IF HasKey(final_data, "user_message") THEN JsonMsg(user_message) ELSE RawMsg(text),
                             TRUE, details, tool_results))

\* get_ai_response as it would be without its try/except.
get_ai_response_unguarded(result) == result

\* get_ai_response (services1.py 279-290): what the caller sees of a stage's
\* result; an exception becomes the error response.
get_ai_response(result) ==
    IF result.kind = "raise"
    THEN Return("exception", Response(ErrorMsg(result.exc), TRUE, JList(<<>>), <<>>))
    ELSE result

(***************************************************************************)
(* The completions the language model may give.                            *)
(***************************************************************************)
Obj0 == JObj(<<>>, <<>>)

Obj1(k, v) == JObj(<<k>>, <<v>>)

Obj2(k1, v1, k2, v2) == JObj(<<k1, k2>>, <<v1, v2>>)

Call(tool, args) == Obj2("tool", JStr(tool), "args", args)

Selection(names) == Obj1("tools", JList([i \in 1..Len(names) |-> Obj1("tool", JStr(names[i]))]))

\* Stage 1 answers that select at least one tool.
Stage1Selecting ==
    { Text("pure", Selection(<<"create_task">>)),
      Text("embedded", Selection(<<"create_task", "set_task_status">>)),
      Text("fenced", JList(<<Obj1("tool", JStr("create_task"))>>)) }

\* Stage 1 answers that select none, or that are not what the prompt asked.
Stage1Other ==
    { Text("none", JNull), Text("empty", JNull), Text("prose", JNull),
      Text("pure", Obj0), Text("pure", JInt(0)), Text("pure", JInt(5)), Text("fenced", JInt(5)),
      Text("pure", JStr("hello")), Text("pure", JStr("no tools apply")),
      Text("pure", JStr("see the user_message")),
      Text("pure", Obj1("user_message", JStr("hi"))),
      Text("embedded", Obj1("user_message", JStr(""))),
      Text("pure", Obj1("user_message", JNull)),
      Text("pure", Obj1("tools", JList(<<>>))),
      Text("pure", Obj1("tools", JList(<<Obj1("tool", JNull)>>))),
      Text("pure", Obj2("tools", JList(<<Obj1("tool", JNull)>>), "user_message", JStr("hi"))),
      Text("pure", Obj1("tools", JList(<<JNull>>))),
      Text("pure", Obj1("tools", JList(<<Obj0>>))),
      Text("pure", Obj1("tools", JInt(5))),
      Text("pure", Obj1("tool", JNull)),
      Text("pure", Obj1("language", JStr("en"))),
      Text("pure", JList(<<JInt(5)>>)) }

Stage1Texts == Stage1Selecting \cup Stage1Other

D1 == JStr("2025-01-01")

D2 == JStr("2025-01-02")

D3 == JStr("2025-1-3")

CreateX == Call("create_task", Obj2("title", JStr("X"), "due_date", D1))

CreateY ==
    Call("create_task", JObj(<<"title", "due_date", "status", "priority">>, <<JStr("Y"), D2, JInt(2), JInt(3)>>))

\* Calls to handlers that change no row.
FailingCalls ==
    { Call("create_task", Obj2("title", JStr("X"), "due_date", JStr("tomorrow"))),
      Call("create_task", Obj1("due_date", D1)),
      Call("create_task", JNull),
      Call("create_task", JObj(<<"title", "due_date", "category_id">>, <<JStr("X"), D1, JInt(9)>>)),
      Call("create_task", JObj(<<"title", "due_date", "end_time">>, <<JStr("X"), D1, JStr("5pm")>>)),
      Call("search_tasks_by_date_range", Obj1("start_date", D1)) }

SetCompleted == Call("set_task_status", Obj2("status", JInt(2), "due_date", D1))

SetInProgress == Call("set_task_status", Obj2("status", JInt(1), "priority", JInt(3)))

SetPendingInCategory == Call("set_task_status", Obj2("status", JInt(0), "category_id", JInt(1)))

\* set_task_status with a due_date filter that is no date.
SetInProgressTomorrow == Call("set_task_status", Obj2("status", JInt(1), "due_date", JStr("tomorrow")))

\* set_task_status with a status outside 0, 1, 2.
InvalidStatusCalls ==
    { Call("set_task_status", Obj1("status", JInt(3))),
      Call("set_task_status", Obj2("status", JInt(-1), "due_date", D1)),
      Call("set_task_status", Obj2("priority", JInt(1), "status", JStr("completed"))),
      Call("set_task_status", Obj2("status", JNull, "due_date", JInt(5))) }

SearchCalls ==
    { Call("search_tasks_by_date_range", Obj2("start_date", D1, "end_date", D2)),
      Call("search_tasks_by_date_range", Obj2("start_date", D2, "end_date", D1)) }

UnknownCall == Call("delete_task_by_id", Obj1("task_id", JInt(1)))

\* Entries without a tool name; the loop skips them.
UnnamedCalls == { Obj1("args", Obj0), Call("", Obj0) }

\* An entry of tool_calls that is not an object.
Malformed == JStr("create_task")

SingleCalls ==
    {CreateX, CreateY, SetCompleted, SetInProgress, SetPendingInCategory, SetInProgressTomorrow, UnknownCall,
     Malformed}
    \cup FailingCalls \cup InvalidStatusCalls \cup SearchCalls \cup UnnamedCalls

FirstCalls ==
    {CreateX, UnknownCall, Malformed, Obj1("args", Obj0),
     Call("search_tasks_by_date_range", Obj1("start_date", D1))}

SecondCalls == {CreateX, SetCompleted, Malformed}

Batches == {<<c>> : c \in SingleCalls} \cup {<<c, d>> : c \in FirstCalls, d \in SecondCalls}

\* Stage 2 answers that are not a batch of calls.
Stage2Other ==
    { Text("none", JNull), Text("prose", JNull), Text("fenced", JStr("create_task")),
      Text("pure", Obj0), Text("pure", JInt(5)), Text("pure", JStr("create_task")),
      Text("pure", Obj1("calls", JList(<<CreateX>>))),
      Text("pure", Obj1("tool_calls", JList(<<>>))),
      Text("pure", Obj1("tool_calls", JInt(5))),
      Text("pure", Obj1("tool_calls", JStr("create_task"))),
      Text("pure", Obj1("tool_calls", CreateX)),
      Text("fenced", Obj1("tool_calls", JList(<<CreateX>>))),
      Text("embedded", JList(<<Obj1("tool_calls", JList(<<CreateX>>))>>)) }

Stage2Texts == {Text("pure", Obj1("tool_calls", JList(b))) : b \in Batches} \cup Stage2Other

Stage3Texts ==
    { Text("pure", JObj(<<"user_message", "details", "language">>,
                        <<JStr("All done."), JList(<<JStr("did it")>>), JStr("English")>>)),
      Text("fenced", Obj1("details", JList(<<>>))),
      Text("prose", JNull), Text("none", JNull), Text("pure", JInt(5)),
      Text("pure", JList(<<Obj1("user_message", JStr("All done."))>>)) }

(***************************************************************************)
(* The state: the database, and one get_ai_response call at a time with    *)
(* the locals of fallback_tool_call_three_step.                            *)
(***************************************************************************)
MaxTasks == 2

\* A request of the concurrent specification that has not started.
NoRun == [pc |-> "idle", calls |-> <<>>, idx |-> 0, tool_results |-> <<>>, returned |-> <<>>]

VARIABLES
    tasks,          \* the Task table
    activity,       \* the ActivityLog table
    pc,             \* "idle", "selecting", "extracting", "executing", "summarizing", "done"
    user,           \* the caller of the running request
    response1,      \* the stage 1 completion text
    response2,      \* the stage 2 completion text
    tools_needed,   \* the tool names stage 1 selected
    tool_calls,     \* the tool calls stage 2 extracted
    idx,            \* how many elements of tool_calls the loop has visited
    tool_results,   \* the entries appended so far
    dispatched,     \* the positions in tool_calls handed to execute_tool_call
    final_raw,      \* the stage 3 completion text
    api_calls,      \* the completion requests sent, in order
    tasks0,         \* the Task table when the request entered
    activity0,      \* the ActivityLog table when the request entered
    outcome,        \* "none", "returned" or "raised": how get_ai_response ended
    path,           \* which return statement ended the request
    exc,            \* the exception that left fallback_tool_call_three_step, or ""
    response,       \* the value get_ai_response returned
    runs,           \* per user, a request running concurrently with the other user's
    custom_users,   \* the CustomUser table, by email
    otps,           \* the PasswordResetOTP table
    outbox,         \* the verification tokens mailed so far
    issued,         \* the emails that were handed access and refresh tokens
    clock,          \* now(), in units of five minutes
    listed,         \* the rows the last TaskListBetweenDatesView request answered with
    team_rows,      \* the Team table: the ids of the teams that exist
    memberships,    \* the TeamMembership table
    invitations,    \* the TeamInvitation table
    inflight        \* membership requests that passed their checks and have not written yet

(***************************************************************************)
(* The accounts tables.  A CustomUser row is kept under its email; a       *)
(* password is kept as make_password stores it.                            *)
(***************************************************************************)
Emails == {"a@x.org", "b@x.org"}

Passwords == {"pw1", "pw2"}

OtpCodes == {"111111", "222222"}

NoUser == [registered |-> FALSE, password |-> "", is_verified |-> FALSE]

make_password(raw) == "pbkdf2_sha256$" \o raw

check_password(raw, encoded) == encoded = make_password(raw)

\* default_token_generator: the token is a hash over the user's key and
\* password, and check_token recomputes it.
make_token(email, row) == [email |-> email, password |-> row.password]

check_token(email, row, token, fresh) == fresh /\ token = make_token(email, row)

NoAccounts ==
    /\ custom_users = [e \in Emails |-> NoUser]
    /\ otps = {}
    /\ outbox = {}
    /\ issued = {}
    /\ clock = 0

vars == <<tasks, activity, pc, user, response1, response2, tools_needed, tool_calls, idx,
          tool_results, dispatched, final_raw, api_calls, tasks0, activity0, outcome, path, exc,
          response, runs, custom_users, otps, outbox, issued, clock, listed, team_rows, memberships,
          invitations, inflight>>

db == <<tasks, activity>>

accounts == <<custom_users, otps, outbox, issued, clock>>

teams == <<team_rows, memberships, invitations, inflight>>

\* No list was asked for.
NotListed == Found("-", {})

\* The teams tables before any team is made.
NoTeams ==
    /\ team_rows = {}
    /\ memberships = {}
    /\ invitations = {}
    /\ inflight = {}

locals == <<response1, response2, tools_needed, tool_calls, idx, tool_results, dispatched, final_raw>>

Init ==
    /\ tasks = <<>>
    /\ activity = <<>>
    /\ pc = "idle"
    /\ user = "u1"
    /\ response1 = NoText
    /\ response2 = NoText
    /\ tools_needed = JNull
    /\ tool_calls = JNull
    /\ idx = 0
    /\ tool_results = <<>>
    /\ dispatched = <<>>
    /\ final_raw = NoText
    /\ api_calls = <<>>
    /\ tasks0 = <<>>
    /\ activity0 = <<>>
    /\ outcome = "none"
    /\ path = ""
    /\ exc = ""
    /\ response = NoResponse
    /\ runs = [u \in Users |-> NoRun]
    /\ NoAccounts
    /\ listed = NotListed
    /\ NoTeams

\* The request ends with what get_ai_response makes of the stage's result.
Finish(result) ==
    LET seen == get_ai_response(result) IN
    /\ pc' = "done"
    /\ exc' = result.exc
    /\ outcome' = IF seen.kind = "raise" THEN "raised" ELSE "returned"
    /\ path' = seen.path
    /\ response' = seen.response

Enter(u) ==
    /\ pc \in {"idle", "done"}
    /\ user' = u
    /\ response1' = NoText
    /\ response2' = NoText
    /\ tools_needed' = JNull
    /\ tool_calls' = JNull
    /\ idx' = 0
    /\ tool_results' = <<>>
    /\ dispatched' = <<>>
    /\ final_raw' = NoText
    /\ api_calls' = <<>>
    /\ tasks0' = tasks
    /\ activity0' = activity
    /\ UNCHANGED <<db, runs, accounts, listed, teams>>

\* A view calls get_ai_response(user, prompt); get_ai_client() succeeds.
StartRequest(u) ==
    /\ Enter(u)
    /\ pc' = "selecting"
    /\ outcome' = "none"
    /\ path' = ""
    /\ exc' = ""
    /\ response' = NoResponse

\* get_ai_client() raises (no API key configured).
ClientError(u) ==
    /\ Enter(u)
    /\ Finish(Raise("OpenAIError"))

\* Stage 1: the completion arrives and is read.
SelectTools(text) ==
    /\ pc = "selecting"
    /\ api_calls' = Append(api_calls, "select")
    /\ response1' = text
    /\ LET r == select_tools(text) IN
       IF r.kind = "continue"
       THEN /\ pc' = "extracting"
            /\ tools_needed' = r.value
            /\ UNCHANGED <<outcome, path, exc, response>>
       ELSE /\ Finish(r)
            /\ UNCHANGED tools_needed
    /\ UNCHANGED <<db, user, response2, tool_calls, idx, tool_results, dispatched, final_raw, tasks0,
                   activity0, runs, accounts, listed, teams>>

\* ApiError as it would be if a failed request were sent once more.
ApiError_retrying(stage, name) ==
    /\ pc = stage
    /\ Len(api_calls) < 4
    /\ api_calls' = Append(api_calls, name)
    /\ UNCHANGED <<pc, outcome, path, exc, response>>
    /\ UNCHANGED <<db, user, locals, tasks0, activity0, runs, accounts, listed, teams>>

\* A completion request fails in transport, at any of the three stages.
ApiError(stage, name) ==
    /\ pc = stage
    /\ api_calls' = Append(api_calls, name)
    /\ Finish(Raise("APIError"))
    /\ UNCHANGED <<db, user, locals, tasks0, activity0, runs, accounts, listed, teams>>

\* Stage 2: the completion arrives and is read.
ExtractArguments(text) ==
    /\ pc = "extracting"
    /\ api_calls' = Append(api_calls, "extract")
    /\ response2' = text
    /\ LET r == extract_tool_calls(text) IN
       IF r.kind = "continue"
       THEN /\ pc' = "executing"
            /\ tool_calls' = r.value
            /\ UNCHANGED <<outcome, path, exc, response>>
       ELSE /\ Finish(r)
            /\ UNCHANGED tool_calls
    /\ UNCHANGED <<db, user, response1, tools_needed, idx, tool_results, dispatched, final_raw, tasks0,
                   activity0, runs, accounts, listed, teams>>

\* Stage 3, one iteration of `for call in tool_calls`.
ExecuteNextCall ==
    /\ pc = "executing"
    /\ LET calls == PyIter(tool_calls) IN
       IF IsExc(calls)
       THEN /\ Finish(Raise(calls.s))
            /\ UNCHANGED <<db, idx, tool_results, dispatched>>
       ELSE LET step == execute_call(user, calls.items[idx + 1], tool_results, tasks, activity) IN
            /\ Len(step.tasks) <= MaxTasks
            /\ tasks' = step.tasks
            /\ activity' = step.activity
            /\ tool_results' = step.tool_results
            /\ dispatched' = IF step.dispatched THEN Append(dispatched, idx + 1) ELSE dispatched
            /\ idx' = idx + 1
            /\ IF step.exc # ""
               THEN Finish(Raise(step.exc))
               ELSE /\ pc' = IF idx + 1 = Len(calls.items) THEN "summarizing" ELSE "executing"
                    /\ UNCHANGED <<outcome, path, exc, response>>
    /\ UNCHANGED <<user, response1, response2, tools_needed, tool_calls, final_raw, api_calls, tasks0,
                   activity0, runs, accounts, listed, teams>>

\* Stage 4: the summary arrives and the request returns.
Summarize(text) ==
    /\ pc = "summarizing"
    /\ api_calls' = Append(api_calls, "summarize")
    /\ final_raw' = text
    /\ Finish(summarize(text, tool_results))
    /\ UNCHANGED <<db, user, response1, response2, tools_needed, tool_calls, idx, tool_results, dispatched,
                   tasks0, activity0, runs, accounts, listed, teams>>

Next ==
    \/ \E u \in Users : StartRequest(u)
    \/ \E u \in Users : ClientError(u)
    \/ \E text \in Stage1Texts : SelectTools(text)
    \/ ApiError("selecting", "select")
    \/ \E text \in Stage2Texts : ExtractArguments(text)
    \/ ApiError("extracting", "extract")
    \/ ExecuteNextCall
    \/ \E text \in Stage3Texts : Summarize(text)
    \/ ApiError("summarizing", "summarize")

Spec == Init /\ [][Next]_vars

(***************************************************************************)
(* Vocabulary of the properties.                                           *)
(***************************************************************************)
HandlerNames == {JStr("create_task"), JStr("set_task_status"), JStr("search_tasks_by_date_range")}

\* The elements the execution loop iterates over, and the one it visits next.
Calls == PyIter(tool_calls).items

CurrentCall == Calls[idx + 1]

\* The loop is about to visit an element and the step taken visits it.
VisitsCall == pc = "executing" /\ ~IsExc(PyIter(tool_calls)) /\ idx' = idx + 1

HasToolName(call) == call.t = "obj" /\ HasKey(call, "tool") /\ Truthy(GetItem(call, "tool"))

ArgsOf(call) == PyGet(call, "args", Obj0)

\* The positions of the calls that carry a tool name, in list order.
NamedPositions(calls) == SelectSeq([i \in 1..Len(calls) |-> i], LAMBDA i : HasToolName(calls[i]))

LastOf(seq) == seq[Len(seq)]

\* A stage 1 text that selects no tool: no JSON in it, an empty or all-null
\* tool list, or an object without a tool key (or with "tool": null).
AllNullTools(v) ==
    /\ v.t = "obj" /\ HasKey(v, "tools")
    /\ LET ts == GetItem(v, "tools") IN
       /\ ts.t = "list"
       /\ \A i \in 1..Len(ts.items) :
             ts.items[i].t = "obj" /\ HasKey(ts.items[i], "tool") /\ GetItem(ts.items[i], "tool") = JNull

NoToolKey(v) ==
    /\ v.t = "obj" /\ ~HasKey(v, "tools")
    /\ HasKey(v, "tool") => GetItem(v, "tool") = JNull

SelectsNoTool(text) ==
    LET v == extract_json_like(text) IN v = JNull \/ AllNullTools(v) \/ NoToolKey(v)

\* The request ended at stage 1 on a text that selects no tool.
NoToolRun == pc = "done" /\ response1 # NoText /\ SelectsNoTool(response1)

\* A user_message that is neither None nor "".
NonEmptyMsg(m) ==
    CASE m.kind = "raw"  -> m.text.form \notin {"none", "empty"}
      [] m.kind = "json" -> m.val \notin {JNull, JStr("")}
      [] OTHER           -> TRUE

(***************************************************************************)
(* C1.  Error isolation in the execution stage: once the loop is over,     *)
(* every call of the batch that carries a tool name has been dispatched    *)
(* exactly once, in list order, and has exactly one tool_results entry,    *)
(* under "result" or under "error"; no call keeps a later one from being   *)
(* executed and reported.                                                  *)
(* Violated: an element of tool_calls that is not an object makes          *)
(* call.get raise outside the try, and the rest of the batch is dropped.   *)
(***************************************************************************)
C1_EveryNamedCallReported ==
    (pc \in {"summarizing", "done"} /\ tool_calls.t = "list") =>
        LET named == NamedPositions(tool_calls.items) IN
        /\ dispatched = named
        /\ Len(tool_results) = Len(named)
        /\ \A k \in 1..Len(named) :
              /\ tool_results[k].tool = GetItem(tool_calls.items[named[k]], "tool")
              /\ tool_results[k].args = ArgsOf(tool_calls.items[named[k]])
              /\ tool_results[k].key \in {"result", "error"}

(***************************************************************************)
(* C2.  Partial success is surfaced: a request that has changed the Task   *)
(* table returns, in tool_results, one entry for every call it executed.   *)
(* Violated: when the summarization request fails, or a later element of   *)
(* the batch is malformed, the exception reaches get_ai_response, which    *)
(* returns tool_results == [] although rows were written.                  *)
(***************************************************************************)
C2_PartialSuccessSurfaced ==
    (pc = "done" /\ tasks # tasks0) =>
        /\ Len(response.tool_results) = Len(dispatched)
        /\ \A k \in 1..Len(dispatched) :
              response.tool_results[k].tool = GetItem(Calls[dispatched[k]], "tool")

(***************************************************************************)
(* C3.  When the stage 2 text holds no JSON the request ends with          *)
(* tool_results == [] and the message "Failed to parse tool arguments";    *)
(* no handler is dispatched, no summarization request is sent and the      *)
(* database is as it was when the request entered.                         *)
(***************************************************************************)
C3_ParseFailureIsTerminal ==
    (pc = "done" /\ response2 # NoText /\ extract_json_like(response2) = JNull) =>
        /\ outcome = "returned"
        /\ response.tool_results = <<>>
        /\ response.user_message = FixedMsg("Failed to parse tool arguments")
        /\ dispatched = <<>>
        /\ api_calls = <<"select", "extract">>
        /\ tasks = tasks0
        /\ activity = activity0

\* A request ended on an unparseable stage 2 text while the user had rows.
C3_Witness ==
    /\ pc = "done"
    /\ response2 = Text("prose", JNull)
    /\ path = "parse_failed"
    /\ \E i \in 1..Len(tasks) : tasks[i].user = user

(***************************************************************************)
(* C4.  Every stage 1 text that selects no tool ends the request with      *)
(* tool_results == [], a non-empty user_message and no handler executed.   *)
(* Violated: an empty completion, or a JSON user_message of "" or null,    *)
(* is returned as it is.                                                   *)
(***************************************************************************)
C4_NoToolMessageNonEmpty ==
    NoToolRun =>
        /\ response.tool_results = <<>>
        /\ NonEmptyMsg(response.user_message)
        /\ dispatched = <<>>
        /\ tasks = tasks0

(***************************************************************************)
(* C5 as stated: on the no-tool path user_message is the raw text of the   *)
(* stage 1 completion.                                                     *)
(***************************************************************************)
C5_RawTextReturned == NoToolRun => response.user_message = RawMsg(response1)

(***************************************************************************)
(* C5 amended.  On the no-tool path user_message is the raw stage 1 text   *)
(* only when that text holds no JSON or an empty JSON value; when it       *)
(* holds a JSON object that names no tool, user_message is that object's   *)
(* "user_message" value if it has one, and otherwise the fixed string      *)
(* "No tools needed, but here's the response."                             *)
(***************************************************************************)
C5_NoToolMessage ==
    NoToolRun =>
        LET v == extract_json_like(response1) IN
        /\ outcome = "returned"
        /\ response.user_message =
              IF ~Truthy(v) THEN RawMsg(response1)
              ELSE IF HasKey(v, "user_message") THEN JsonMsg(GetItem(v, "user_message"))
              ELSE FixedMsg("No tools needed, but here's the response.")

\* A no-tool request answered with the JSON's user_message, not the raw text.
C5_Witness ==
    /\ NoToolRun
    /\ response1 = Text("pure", Obj1("user_message", JStr("hi")))
    /\ response.user_message = JsonMsg(JStr("hi"))

(***************************************************************************)
(* C6.  get_ai_response never lets an exception out: it always returns,    *)
(* and whenever an exception left fallback_tool_call_three_step (client    *)
(* construction, a failed completion request, model output of an           *)
(* unexpected JSON shape) the value returned carries "Error: <exception>"  *)
(* in user_message, with details and an empty tool_results.                *)
(***************************************************************************)
C6_NeverRaises ==
    /\ outcome # "raised"
    /\ (pc = "done" /\ exc # "") =>
          /\ outcome = "returned"
          /\ response.user_message = ErrorMsg(exc)
          /\ response.has_details
          /\ response.tool_results = <<>>

\* A request that ended on an exception raised by the shape of the model's
\* JSON, after a handler had run.
C6_Witness ==
    /\ pc = "done"
    /\ exc = "AttributeError"
    /\ Len(dispatched) > 0
    /\ outcome = "returned"

(***************************************************************************)
(* C7.  set_task_status with a status outside 0, 1, 2 changes no Task row  *)
(* and returns status "error" with error "invalid_status", whatever        *)
(* filters come with it.                                                   *)
(***************************************************************************)
InvalidStatusCall(call) ==
    /\ call.t = "obj" /\ GetItem(call, "tool") = JStr("set_task_status")
    /\ BindKwargs(ArgsOf(call)) = ""
    /\ HasKey(ArgsOf(call), "status")
    /\ LET status == GetItem(ArgsOf(call), "status") IN
       /\ status.t \in {"int", "str", "null"}
       /\ ~(status.t = "int" /\ status.n \in {0, 1, 2})

CountOf(u, rows) == Cardinality({i \in 1..Len(rows) : rows[i].user = u})

CreateSucceeds ==
    /\ VisitsCall
    /\ Len(tool_results') = Len(tool_results) + 1
    /\ LastOf(tool_results').tool = JStr("create_task")
    /\ LastOf(tool_results').key = "result"
    /\ LastOf(tool_results').payload.status = "success"

C8_EveryCreateAddsARow ==
    [][CreateSucceeds =>
          /\ Len(tasks') = Len(tasks) + 1
          /\ SubSeq(tasks', 1, Len(tasks)) = tasks
          /\ LastOf(tasks').user = user
          /\ CountOf(user, tasks') = CountOf(user, tasks) + 1]_vars

\* Two rows that differ in nothing but their id.
C8_Witness == \E i, j \in 1..Len(tasks) : i < j /\ tasks[i] = tasks[j]

(***************************************************************************)
(* C9.  When stage 1 selects create_task and stage 2 yields the single     *)
(* call create_task(title X, valid due date), the request returns exactly  *)
(* one tool_results entry, for create_task and successful, and exactly     *)
(* one new row exists, owned by the caller, titled X, pending and of       *)
(* priority 1 unless the call says otherwise.                              *)
(* Violated through the defect of C2: when the summarization request       *)
(* fails the row exists but the request returns no entry.                  *)
(***************************************************************************)
PlainCreateCall(call) ==
    /\ call.t = "obj" /\ GetItem(call, "tool") = JStr("create_task")
    /\ ArgsOf(call).t = "obj"
    /\ \A i \in 1..Len(ArgsOf(call).keys) :
          ArgsOf(call).keys[i] \in {"title", "due_date", "status", "priority"}
    /\ HasKey(ArgsOf(call), "title") /\ GetItem(ArgsOf(call), "title").t = "str"
    /\ HasKey(ArgsOf(call), "due_date") /\ GetItem(ArgsOf(call), "due_date").t = "str"
    /\ strptime_date(GetItem(ArgsOf(call), "due_date").s) # 0
    /\ HasKey(ArgsOf(call), "status") => GetItem(ArgsOf(call), "status").t = "int"
    /\ HasKey(ArgsOf(call), "priority") => GetItem(ArgsOf(call), "priority").t = "int"

SingleCreateRun ==
    /\ pc = "done"
    /\ tools_needed = JList(<<JStr("create_task")>>)
    /\ tool_calls.t = "list" /\ Len(tool_calls.items) = 1
    /\ PlainCreateCall(tool_calls.items[1])

C9_SingleCreateReported ==
    SingleCreateRun =>
        LET args == ArgsOf(tool_calls.items[1]) IN
        /\ Len(response.tool_results) = 1
        /\ response.tool_results[1].tool = JStr("create_task")
        /\ response.tool_results[1].key = "result"
        /\ response.tool_results[1].payload.status = "success"
        /\ Len(tasks) = Len(tasks0) + 1
        /\ SubSeq(tasks, 1, Len(tasks0)) = tasks0
        /\ LastOf(tasks).user = user
        /\ LastOf(tasks).title = GetItem(args, "title").s
        /\ ~HasKey(args, "status") => LastOf(tasks).status = "pending"
        /\ ~HasKey(args, "priority") => LastOf(tasks).priority = 1

(***************************************************************************)
(* C10.  A call whose name is no handler appends one entry, for that call  *)
(* only, that reports "Unknown tool function"; it writes nothing to the    *)
(* database and the loop goes on to the next call.                         *)
(***************************************************************************)
UnknownToolCall(call) == HasToolName(call) /\ GetItem(call, "tool") \notin HandlerNames

C10_UnknownToolIsolated ==
    [][(VisitsCall /\ UnknownToolCall(CurrentCall)) =>
          /\ tasks' = tasks
          /\ activity' = activity
          /\ tool_results' = Append(tool_results,
                                    ResultEntry(GetItem(CurrentCall, "tool"), ArgsOf(CurrentCall), UnknownTool))
          /\ pc' = IF idx + 1 < Len(Calls) THEN "executing" ELSE "summarizing"]_vars

\* The call after an unknown tool was executed and reported.
C10_Witness ==
    /\ Len(tool_results) = 2
    /\ tool_results[1].payload = UnknownTool
    /\ tool_results[2].tool = JStr("create_task")
    /\ tool_results[2].payload.status = "success"

(***************************************************************************)
(* C11.  Every value get_ai_response returns has the three fields          *)
(* user_message (a string), details (a list) and tool_results (a list),    *)
(* on every path.                                                          *)
(* Violated: the four early returns of fallback_tool_call_three_step       *)
(* (no JSON at stage 1, no tool, stage 2 parse failure, empty tool-call    *)
(* list) build a dict without "details"; user_message and details taken    *)
(* from the model's JSON are returned whatever their type.                 *)
(***************************************************************************)
\* A user_message that is a str.
StringMsg(m) ==
    CASE m.kind = "raw"  -> m.text.form # "none"
      [] m.kind = "json" -> m.val.t = "str"
      [] OTHER           -> TRUE

C11_ThreeFields ==
    (pc = "done" /\ outcome = "returned") =>
        /\ StringMsg(response.user_message)
        /\ response.has_details
        /\ response.details.t = "list"

(***************************************************************************)
(* C12 as stated: the only early exit is the one from selecting; a run     *)
(* that left selecting with at least one tool and met no exception has     *)
(* reached executing and has sent the summarization request.               *)
(***************************************************************************)
C12_OnlyNoToolExit ==
    (pc = "done" /\ exc = "" /\ Truthy(tools_needed)) =>
        /\ tool_calls # JNull
        /\ api_calls = <<"select", "extract", "summarize">>

(***************************************************************************)
(* C12 amended.  A run moves forward only, selecting -> extracting ->      *)
(* executing -> summarizing, and leaves selecting for extracting only      *)
(* with at least one tool; it can end early at selecting (no JSON, no      *)
(* tool), at extracting (stage 2 parse failure, empty tool-call list) and  *)
(* at any stage through an exception; executing ends early through an     *)
(* exception only, and the two summarization returns end a run that        *)
(* reached summarizing.                                                    *)
(***************************************************************************)
\* A non-empty list of tool names, none of them empty or null.
NamesATool(v) == v.t = "list" /\ Len(v.items) > 0 /\ \A i \in 1..Len(v.items) : Truthy(v.items[i])

PipelineEdges ==
    { <<"idle", "selecting">>, <<"idle", "done">>, <<"done", "selecting">>,
      <<"selecting", "extracting">>, <<"selecting", "done">>,
      <<"extracting", "executing">>, <<"extracting", "done">>,
      <<"executing", "summarizing">>, <<"executing", "done">>,
      <<"summarizing", "done">> }

ExitPaths(stage) ==
    CASE stage = "selecting"   -> {"no_json", "no_tool", "exception"}
      [] stage = "extracting"  -> {"parse_failed", "no_calls", "exception"}
      [] stage = "executing"   -> {"exception"}
      [] stage = "summarizing" -> {"summarized", "summary_fallback", "exception"}
      [] OTHER                 -> {"exception"}

C12_ForwardWithEarlyExits ==
    [][/\ pc' # pc => <<pc, pc'>> \in PipelineEdges
       /\ (pc = "selecting" /\ pc' = "extracting") => NamesATool(tools_needed')
       /\ (pc = "extracting" /\ pc' = "executing") => Truthy(tool_calls')
       /\ (pc # "done" /\ pc' = "done") => path' \in ExitPaths(pc)]_vars

\* A run that selected a tool ended at extracting on an empty tool-call list.
C12_Witness ==
    /\ pc = "done"
    /\ Truthy(tools_needed)
    /\ path = "no_calls"
    /\ api_calls = <<"select", "extract">>

(***************************************************************************)
(* C13.  Within one run the completion endpoint is requested at most       *)
(* three times, in the order tool selection, argument extraction,          *)
(* summarization, each at most once (a failed request is not repeated);    *)
(* a handler is executed only after argument extraction has yielded tool   *)
(* calls and before the summarization request.                             *)
(***************************************************************************)
RequestOrder == <<"select", "extract", "summarize">>

IsPrefix(s, t) == Len(s) <= Len(t) /\ s = SubSeq(t, 1, Len(s))

C13_ThreeRequestsInOrder ==
    [][/\ IsPrefix(api_calls', RequestOrder)
       /\ (pc = "executing" /\ dispatched' # dispatched) =>
             /\ api_calls = <<"select", "extract">>
             /\ api_calls' = api_calls
             /\ Truthy(tool_calls)
             /\ extract_tool_calls(response2).kind = "continue"
       /\ (pc \in {"selecting", "extracting", "summarizing"} /\ api_calls' # api_calls) => pc' # pc]_vars

\* A run that sent the three requests and executed two handlers in between.
C13_Witness ==
    /\ pc = "done"
    /\ api_calls = RequestOrder
    /\ Len(dispatched) = 2
    /\ path = "summarized"

(***************************************************************************)
(* C14.  A run writes nothing but Task rows: during and after a request    *)
(* the ActivityLog table is what it was when the request entered.          *)
(* Violated: Task.objects.create sends post_save, and post_save_handler    *)
(* inserts one ActivityLog row (action "create") for every task that       *)
(* create_task creates.                                                    *)
(***************************************************************************)
C14_OnlyTaskRowsWritten == activity = activity0

(***************************************************************************)
(* C15.  When the stage 3 text holds no JSON, or JSON that is not an       *)
(* object, the request returns that text verbatim as user_message, with    *)
(* an empty details list, with one tool_results entry for every call       *)
(* that was executed, and with the rows the handlers wrote still in the    *)
(* database.                                                               *)
(***************************************************************************)
NotAnObject(text) == extract_json_like(text).t # "obj"

\* The Task table after executing, from the table at entry, every call of
\* the batch that was dispatched.
RECURSIVE TasksAfter(_, _, _)
TasksAfter(rows, log, k) ==
    IF k > Len(dispatched) THEN rows
    ELSE LET call == Calls[dispatched[k]]
             out == execute_tool_call(user, GetItem(call, "tool"), ArgsOf(call), rows, log)
         IN  TasksAfter(out.tasks, out.activity, k + 1)

C15_RawSummaryKeepsResults ==
    (pc = "done" /\ final_raw # NoText /\ NotAnObject(final_raw)) =>
        /\ outcome = "returned"
        /\ response.user_message = RawMsg(final_raw)
        /\ response.details = JList(<<>>)
        /\ response.tool_results = tool_results
        /\ Len(response.tool_results) = Len(dispatched)
        /\ \A k \in 1..Len(dispatched) :
              response.tool_results[k].tool = GetItem(Calls[dispatched[k]], "tool")
        /\ tasks = TasksAfter(tasks0, activity0, 1)

\* A summary in prose was returned after a handler had created a row.
C15_Witness ==
    /\ pc = "done"
    /\ final_raw = Text("prose", JNull)
    /\ path = "summary_fallback"
    /\ Len(response.tool_results) > 0
    /\ response.tool_results[1].payload.status = "success"
    /\ Len(tasks) > Len(tasks0)

(***************************************************************************)
(* C16.  A call to create_task, set_task_status or                         *)
(* search_tasks_by_date_range whose arguments fail domain validation       *)
(* (unknown or foreign category, malformed date or time, end date before   *)
(* start date, missing or unexpected argument) changes no Task row and     *)
(* is reported under "result" as {status: "error", message, error: code};  *)
(* the handler raises nothing to the pipeline.                             *)
(* Violated: search_tasks_by_date_range returns its errors without an      *)
(* error code and, called with a missing or unexpected argument, raises    *)
(* TypeError to the loop; set_task_status with a malformed date drops      *)
(* the filter and updates the rows the other filters match, and with an    *)
(* unknown category answers success.                                       *)
(***************************************************************************)
Has(args, k) == args.t = "obj" /\ HasKey(args, k)

MalformedDate(args, k) ==
    Has(args, k) /\ (GetItem(args, k).t # "str" \/ strptime_date(GetItem(args, k).s) = 0)

MalformedTime(args, k) ==
    Has(args, k) /\ (GetItem(args, k).t # "str" \/ ~strptime_time_ok(GetItem(args, k).s))

UnknownCategory(u, args) ==
    /\ Has(args, "category_id")
    /\ LET c == GetItem(args, "category_id") IN
       ~(c.t = "int" /\ c.n \in DOMAIN CategoryOwner /\ CategoryOwner[c.n] = u)

\* The call's arguments fail the validation the claim lists.
ValidationFailure(u, call) ==
    LET tool == GetItem(call, "tool")
        args == ArgsOf(call)
    IN  /\ HasToolName(call) /\ tool \in HandlerNames
        /\ \/ args.t # "obj"
           \/ /\ tool = JStr("create_task")
              /\ \/ ~HasKey(args, "title")
                 \/ MalformedDate(args, "due_date")
                 \/ MalformedTime(args, "start_time") \/ MalformedTime(args, "end_time")
                 \/ UnknownCategory(u, args)
           \/ /\ tool = JStr("set_task_status")
              /\ \/ ~HasKey(args, "status")
                 \/ MalformedDate(args, "due_date")
                 \/ UnknownCategory(u, args)
           \/ /\ tool = JStr("search_tasks_by_date_range")
              /\ \/ {args.keys[i] : i \in 1..Len(args.keys)} # {"start_date", "end_date"}
                 \/ MalformedDate(args, "start_date") \/ MalformedDate(args, "end_date")
                 \/ strptime_date(GetItem(args, "end_date").s) < strptime_date(GetItem(args, "start_date").s)

C16_ValidationFailureStructured ==
    [][(VisitsCall /\ ValidationFailure(user, CurrentCall)) =>
          /\ tasks' = tasks
          /\ Len(tool_results') = Len(tool_results) + 1
          /\ LastOf(tool_results').key = "result"
          /\ LastOf(tool_results').payload.status = "error"
          /\ LastOf(tool_results').payload.error # "-"]_vars

(***************************************************************************)
(* Two requests at once, one per user.  Stages 1, 2 and 4 read and write   *)
(* locals only; the requests meet in the database, one query at a time.    *)
(* tasks0 is the Task table before either request; the variables of the   *)
(* single request stay as they are.                                        *)
(***************************************************************************)
request == <<pc, user, response1, response2, tools_needed, tool_calls, idx, tool_results, dispatched,
             final_raw, api_calls, outcome, path, exc, response>>

RowX(u) == TaskRow(u, "X", "", 1, "", "", 0, "pending", 1)

\* Tables that requests of the two users leave behind.
ConcTables == { <<>>, <<RowX("u1")>>, <<RowX("u2"), RowX("u1")>> }

ConcCalls ==
    { CreateX, SetCompleted, SetInProgress,
      Call("search_tasks_by_date_range", Obj2("start_date", D1, "end_date", D2)) }

ConcBatches == {<<c>> : c \in ConcCalls} \cup {<<c, d>> : c, d \in ConcCalls}

ConcInit ==
    /\ tasks \in ConcTables
    /\ tasks0 = tasks
    /\ activity = <<>>
    /\ activity0 = <<>>
    /\ runs = [u \in Users |-> NoRun]
    /\ NoAccounts
    /\ listed = NotListed
    /\ NoTeams
    /\ pc = "idle"
    /\ user = "u1"
    /\ response1 = NoText
    /\ response2 = NoText
    /\ tools_needed = JNull
    /\ tool_calls = JNull
    /\ idx = 0
    /\ tool_results = <<>>
    /\ dispatched = <<>>
    /\ final_raw = NoText
    /\ api_calls = <<>>
    /\ outcome = "none"
    /\ path = ""
    /\ exc = ""
    /\ response = NoResponse

\* Stages 1 and 2 of u's request have yielded the tool calls.
RunStart(u, batch) ==
    /\ runs[u].pc = "idle"
    /\ runs' = [runs EXCEPT ![u] = [NoRun EXCEPT !.pc = "executing", !.calls = batch]]
    /\ UNCHANGED <<db, tasks0, activity0, request, accounts, listed, teams>>

\* One iteration of u's execution loop, up to the handler's next query: a
\* set_task_status that found rows stops before its UPDATE.
RunCall(u) ==
    LET r == runs[u]
        call == r.calls[r.idx + 1]
        tool_name == PyGet(call, "tool", JNull)
        args == PyGet(call, "args", JObj(<<>>, <<>>))
        step == execute_call(u, call, r.tool_results, tasks, activity)
    IN  /\ r.pc = "executing"
        /\ IF /\ tool_name = JStr("set_task_status") /\ BindKwargs(args) = ""
              /\ set_task_status_exists(u, args, tasks)
           THEN /\ runs' = [runs EXCEPT ![u].pc = "updating"]
                /\ UNCHANGED db
           ELSE /\ Len(step.tasks) <= MaxTasks
                /\ tasks' = step.tasks
                /\ activity' = step.activity
                /\ runs' = [runs EXCEPT ![u].idx = r.idx + 1,
                                        ![u].tool_results = step.tool_results,
                                        ![u].pc = IF step.exc # "" THEN "done"
                                                  ELSE IF r.idx + 1 = Len(r.calls) THEN "summarizing"
                                                  ELSE "executing"]
        /\ UNCHANGED <<tasks0, activity0, request, accounts, listed, teams>>

\* The UPDATE of u's set_task_status.
RunUpdate(u) ==
    LET r == runs[u]
        call == r.calls[r.idx + 1]
        out == set_task_status_update(u, PyGet(call, "args", JObj(<<>>, <<>>)), tasks, activity)
    IN  /\ r.pc = "updating"
        /\ tasks' = out.tasks
        /\ activity' = out.activity
        /\ runs' = [runs EXCEPT ![u].idx = r.idx + 1,
                                ![u].tool_results =
                                    Append(r.tool_results,
                                           ResultEntry(PyGet(call, "tool", JNull),
                                                       PyGet(call, "args", JObj(<<>>, <<>>)), out.payload)),
                                ![u].pc = IF r.idx + 1 = Len(r.calls) THEN "summarizing" ELSE "executing"]
        /\ UNCHANGED <<tasks0, activity0, request, accounts, listed, teams>>

\* Stage 4 of u's request: the response carries the loop's tool_results.
RunSummarize(u) ==
    /\ runs[u].pc = "summarizing"
    /\ runs' = [runs EXCEPT ![u].pc = "done", ![u].returned = runs[u].tool_results]
    /\ UNCHANGED <<db, tasks0, activity0, request, accounts, listed, teams>>

ConcNext ==
    \/ \E u \in Users, batch \in ConcBatches : RunStart(u, batch)
    \/ \E u \in Users : RunCall(u)
    \/ \E u \in Users : RunUpdate(u)
    \/ \E u \in Users : RunSummarize(u)

ConcSpec == ConcInit /\ [][ConcNext]_vars

(***************************************************************************)
(* C17.  Requests of two different users running at once do not            *)
(* interact: under every interleaving of their steps, after k calls of     *)
(* u's batch the rows of u and u's tool_results are what executing those   *)
(* k calls alone, on the table as it was before either request, gives;     *)
(* the response of a finished request carries those tool_results.          *)
(***************************************************************************)
Own(u, rows) == SelectSeq(rows, LAMBDA row : row.user = u)

\* u's first k calls executed with no other request running.
RECURSIVE Alone(_, _, _)
Alone(u, calls, k) ==
    IF k = 0 THEN Step("", FALSE, <<>>, tasks0, activity0)
    ELSE LET before == Alone(u, calls, k - 1)
         IN  execute_call(u, calls[k], before.tool_results, before.tasks, before.activity)

C17_UsersDoNotInteract ==
    \A u \in Users :
        LET r == runs[u]
            alone == Alone(u, r.calls, r.idx)
        IN  /\ r.tool_results = alone.tool_results
            /\ Own(u, tasks) = Own(u, alone.tasks)
            /\ r.pc = "done" => r.returned = Alone(u, r.calls, Len(r.calls)).tool_results

\* u1 is between the SELECT and the UPDATE of its second call while u2,
\* whose request is still running, has already changed rows of its own.
C17_Witness ==
    /\ runs["u1"].pc = "updating" /\ runs["u1"].idx = 1
    /\ runs["u2"].pc = "executing" /\ runs["u2"].idx = 1
    /\ Own("u1", tasks) # Own("u1", tasks0)
    /\ Own("u2", tasks) # Own("u2", tasks0)

(***************************************************************************)
(* C18.  Every Task row has a status that is one of pending, in_progress,  *)
(* completed, whatever create_task and set_task_status calls were made.    *)
(* Violated: create_task hands the schema's integer status (0, 1, 2) to    *)
(* Task.objects.create untranslated, and the CharField stores "0", "1"     *)
(* or "2"; choices are not enforced on save.                               *)
(***************************************************************************)
STATUS_CHOICES == {"pending", "in_progress", "completed"}

C18_StatusIsAChoice == \A i \in 1..Len(tasks) : tasks[i].status \in STATUS_CHOICES

(***************************************************************************)
(* The accounts views.  Each view is an operator from the request and the  *)
(* tables to the response and the tables it leaves, and an action that     *)
(* serves one request.  The AI pipeline's state stays as it is.            *)
(***************************************************************************)
MaxClock == 2

OtpLifetime == 1

\* A token that no mail carried.
ForgedToken == [email |-> "", password |-> ""]

Tokens == {[email |-> e, password |-> make_password(p)] : e \in Emails, p \in Passwords} \cup {ForgedToken}

OtpRecord(email, otp, expires_at) == [user |-> email, otp |-> otp, expires_at |-> expires_at]

\* is_expired as it would be if no record ever expired.
is_expired_never(otp_record) == FALSE

is_expired(otp_record) == clock > otp_record.expires_at

\* authenticate(email=, password=) of the model backend.
authenticate(email, password) ==
    custom_users[email].registered /\ check_password(password, custom_users[email].password)

\* A response, and the tables after the request.
Served(status, message, users_after, otps_after, outbox_after, issued_after) ==
    [status |-> status, message |-> message, custom_users |-> users_after, otps |-> otps_after,
     outbox |-> outbox_after, issued |-> issued_after]

\* A response that changes no table.
Refused(status, message) == Served(status, message, custom_users, otps, outbox, issued)

UserRegistrationView(email, password, password2) ==
    IF custom_users[email].registered THEN Refused(400, "user with this email already exists.")
    ELSE IF password # password2 THEN Refused(400, "Passwords do not match.")
    ELSE LET row == [registered |-> TRUE, password |-> make_password(password), is_verified |-> FALSE]
         IN  Served(201, "User registered successfully. Please check your email.",
                    [custom_users EXCEPT ![email] = row], otps, outbox \cup {make_token(email, row)}, issued)

VerifyEmailView(email, token, fresh) ==
    IF ~custom_users[email].registered THEN Refused(400, "Invalid user.")
    ELSE IF custom_users[email].is_verified THEN Refused(200, "Email already verified. You can log in.")
    ELSE IF check_token(email, custom_users[email], token, fresh)
    THEN Served(200, "Email successfully verified. You can now log in.",
                [custom_users EXCEPT ![email].is_verified = TRUE], otps, outbox, issued)
    ELSE Refused(400, "Invalid or expired token.")

ResendVerificationEmailView(email) ==
    IF ~custom_users[email].registered THEN Refused(404, "No user with this email.")
    ELSE IF custom_users[email].is_verified THEN Refused(400, "User is already verified.")
    ELSE Served(200, "Verification email resent.", custom_users, otps,
                outbox \cup {make_token(email, custom_users[email])}, issued)

\* UserLoginView as it would be without the is_verified check of the
\* serializer.
UserLoginView_unverified_allowed(email, password) ==
    IF ~authenticate(email, password) THEN Refused(401, "Invalid email or password.")
    ELSE Served(200, "Login successful", custom_users, otps, outbox, issued \cup {email})

UserLoginView(email, password) ==
    IF ~authenticate(email, password) THEN Refused(401, "Invalid email or password.")
    ELSE IF ~custom_users[email].is_verified THEN Refused(401, "Email not verified. Please check your inbox.")
    ELSE Served(200, "Login successful", custom_users, otps, outbox, issued \cup {email})

\* otp is what random.choices drew; the column is unique, so a code that is
\* in the table already fails the INSERT.
RequestPasswordResetView(email, otp) ==
    IF ~custom_users[email].registered THEN Refused(404, "User with this email does not exist.")
    ELSE IF \E r \in otps : r.otp = otp THEN Refused(500, "IntegrityError")
    ELSE Served(200, "OTP sent to your email.", custom_users,
                otps \cup {OtpRecord(email, otp, clock + OtpLifetime)}, outbox, issued)

\* VerifyOTPView reads and answers; it writes no table, so serving it is no
\* step of the specification.
VerifyOTPView(email, otp) ==
    IF ~custom_users[email].registered THEN Refused(404, "User with this email does not exist.")
    ELSE IF ~\E r \in otps : r.user = email /\ r.otp = otp THEN Refused(400, "Invalid OTP.")
    ELSE IF is_expired(CHOOSE r \in otps : r.user = email /\ r.otp = otp) THEN Refused(400, "OTP has expired.")
    ELSE Refused(200, "OTP verified successfully.")

ResetPasswordView(email, otp, new_password) ==
    IF ~custom_users[email].registered THEN Refused(404, "User with this email does not exist.")
    ELSE IF ~\E r \in otps : r.user = email /\ r.otp = otp THEN Refused(400, "Invalid OTP.")
    ELSE LET otp_record == CHOOSE r \in otps : r.user = email /\ r.otp = otp IN
         IF is_expired(otp_record) THEN Refused(400, "OTP has expired.")
         ELSE Served(200, "Password reset successfully.",
                     [custom_users EXCEPT ![email].password = make_password(new_password)],
                     otps \ {otp_record}, outbox, issued)

pipeline == <<db, tasks0, activity0, request, runs>>

\* The request is served: the tables become what the view left.
Serve(served) ==
    /\ custom_users' = served.custom_users
    /\ otps' = served.otps
    /\ outbox' = served.outbox
    /\ issued' = served.issued

Register(email, password, password2) ==
    /\ Serve(UserRegistrationView(email, password, password2))
    /\ UNCHANGED <<clock, pipeline, listed, teams>>

\* The caller presents a token some mail carried, or one of its own making.
VerifyEmail(email, token, fresh) ==
    /\ token \in outbox \cup {ForgedToken}
    /\ Serve(VerifyEmailView(email, token, fresh))
    /\ UNCHANGED <<clock, pipeline, listed, teams>>

ResendVerification(email) ==
    /\ Serve(ResendVerificationEmailView(email))
    /\ UNCHANGED <<clock, pipeline, listed, teams>>

Login(email, password) ==
    /\ Serve(UserLoginView(email, password))
    /\ UNCHANGED <<clock, pipeline, listed, teams>>

RequestPasswordReset(email, otp) ==
    /\ Serve(RequestPasswordResetView(email, otp))
    /\ UNCHANGED <<clock, pipeline, listed, teams>>

ResetPassword(email, otp, new_password) ==
    /\ Serve(ResetPasswordView(email, otp, new_password))
    /\ UNCHANGED <<clock, pipeline, listed, teams>>

\* Five minutes pass.
Tick ==
    /\ clock < MaxClock
    /\ clock' = clock + 1
    /\ UNCHANGED <<custom_users, otps, outbox, issued, pipeline, listed, teams>>

AccountsNext ==
    \/ \E email \in Emails, password, password2 \in Passwords : Register(email, password, password2)
    \/ \E email \in Emails, token \in Tokens, fresh \in BOOLEAN : VerifyEmail(email, token, fresh)
    \/ \E email \in Emails : ResendVerification(email)
    \/ \E email \in Emails, password \in Passwords : Login(email, password)
    \/ \E email \in Emails, otp \in OtpCodes : RequestPasswordReset(email, otp)
    \/ \E email \in Emails, otp \in OtpCodes, new_password \in Passwords : ResetPassword(email, otp, new_password)
    \/ Tick

AccountsSpec == Init /\ [][AccountsNext]_vars

(***************************************************************************)
(* C19.  Login hands out tokens exactly when the password matches and the  *)
(* user's is_verified flag is true; with correct credentials and the flag  *)
(* false it answers "Email not verified. Please check your inbox." and     *)
(* hands out nothing.  is_verified becomes true only in VerifyEmailView,   *)
(* on a token that a mail to that user carried, so no user holds tokens    *)
(* before a successful email verification.                                 *)
(***************************************************************************)
LoginIsGuarded ==
    \A email \in Emails, password \in Passwords :
        LET served == UserLoginView(email, password)
            allowed == authenticate(email, password) /\ custom_users[email].is_verified
        IN  /\ served.status = 200 <=> allowed
            /\ served.issued = IF allowed THEN issued \cup {email} ELSE issued
            /\ (authenticate(email, password) /\ ~custom_users[email].is_verified) =>
                  /\ served.status = 401
                  /\ served.message = "Email not verified. Please check your inbox."

C19_NoTokensBeforeVerification ==
    [][/\ LoginIsGuarded
       /\ \A email \in issued' \ issued :
             custom_users[email].is_verified /\ \E password \in Passwords : Login(email, password)
       /\ \A email \in Emails :
             (custom_users'[email].is_verified /\ ~custom_users[email].is_verified) =>
                 \E token \in outbox : token.email = email /\ VerifyEmail(email, token, TRUE)
       /\ \A email \in issued' : custom_users'[email].is_verified]_vars

\* One user has logged in after verifying; the other, registered and not
\* verified, has none although its password was reset in between.
C19_Witness ==
    /\ "a@x.org" \in issued
    /\ custom_users["b@x.org"].registered
    /\ ~custom_users["b@x.org"].is_verified
    /\ "b@x.org" \notin issued
    /\ \E token \in outbox : token.email = "b@x.org" /\ token.password # custom_users["b@x.org"].password

(***************************************************************************)
(* C20.  After a successful ResetPasswordView request the user's password  *)
(* is the new password and no PasswordResetOTP record of that user         *)
(* remains, however many the user had requested.                           *)
(* Violated: the view deletes the one record it matched; every other       *)
(* record of the user stays, and stays usable until it expires.            *)
(***************************************************************************)
C20_ResetLeavesNoOtp ==
    [][\A email \in Emails, otp \in OtpCodes, new_password \in Passwords :
          (ResetPassword(email, otp, new_password) /\ ResetPasswordView(email, otp, new_password).status = 200) =>
              /\ check_password(new_password, custom_users'[email].password)
              /\ \A r \in otps' : r.user # email]_vars

(***************************************************************************)
(* C21.  For an existing user, ResetPasswordView and VerifyOTPView answer  *)
(* 400 "Invalid OTP." to an OTP that matches no record of that user and    *)
(* 400 "OTP has expired." to one whose expires_at has passed.  A rejected  *)
(* reset leaves the password and every OTP record as they were, and the    *)
(* password of a registered user changes only in a reset that presents an  *)
(* unexpired record of that user.                                          *)
(***************************************************************************)
RecordsOf(email, otp) == {r \in otps : r.user = email /\ r.otp = otp}

OtpRejections ==
    \A email \in Emails, otp \in OtpCodes, new_password \in Passwords :
        custom_users[email].registered =>
            LET reset == ResetPasswordView(email, otp, new_password)
                verify == VerifyOTPView(email, otp)
            IN  /\ RecordsOf(email, otp) = {} =>
                      /\ reset.status = 400 /\ reset.message = "Invalid OTP."
                      /\ verify.status = 400 /\ verify.message = "Invalid OTP."
                /\ (\E r \in RecordsOf(email, otp) : clock > r.expires_at) =>
                      /\ reset.status = 400 /\ reset.message = "OTP has expired."
                      /\ verify.status = 400 /\ verify.message = "OTP has expired."
                /\ reset.status # 200 => reset.custom_users = custom_users /\ reset.otps = otps
                /\ verify.custom_users = custom_users /\ verify.otps = otps

C21_ExpiredOtpNeverResets ==
    [][/\ OtpRejections
       /\ \A email \in Emails :
             (custom_users[email].registered /\ custom_users'[email].password # custom_users[email].password) =>
                 \E otp \in OtpCodes, new_password \in Passwords :
                     /\ \E r \in RecordsOf(email, otp) : clock <= r.expires_at
                     /\ ResetPassword(email, otp, new_password)]_vars

\* A user holds an expired record and an unexpired one; a reset with the
\* expired one and a reset with a code of the other user are both refused.
C21_Witness ==
    \E email \in Emails, otp, other \in OtpCodes :
        /\ custom_users[email].registered
        /\ \E r \in RecordsOf(email, otp) : clock > r.expires_at
        /\ \E r \in otps : r.user # email /\ r.otp = other /\ clock <= r.expires_at
        /\ \A new_password \in Passwords :
              /\ ResetPasswordView(email, otp, new_password).message = "OTP has expired."
              /\ ResetPasswordView(email, other, new_password).message = "Invalid OTP."
        /\ VerifyOTPView(email, otp).message = "OTP has expired."

(***************************************************************************)
(* C22.  set_task_status with a valid status and filters as the tool       *)
(* schema declares them updates exactly the caller's rows that match       *)
(* every supplied filter among due_date, category_id and priority: these   *)
(* get the mapped status, every other row stays as it was, and the count   *)
(* reported is the number of rows updated.                                 *)
(* Violated: search_tasks never reads "priority", so a call that filters   *)
(* by priority updates the caller's rows of every priority.                *)
(***************************************************************************)
StatusFilters == {"due_date", "category_id", "priority"}

\* A set_task_status call as the tool schema declares it.
ValidStatusCall(call) ==
    /\ HasToolName(call) /\ GetItem(call, "tool") = JStr("set_task_status")
    /\ LET args == ArgsOf(call) IN
       /\ args.t = "obj"
       /\ \A i \in 1..Len(args.keys) : args.keys[i] \in StatusFilters \cup {"status"}
       /\ HasKey(args, "status") /\ GetItem(args, "status").t = "int" /\ GetItem(args, "status").n \in 0..2
       /\ HasKey(args, "due_date") =>
             GetItem(args, "due_date").t = "str" /\ fromisoformat(GetItem(args, "due_date").s) # 0
       /\ HasKey(args, "category_id") => GetItem(args, "category_id").t = "int"
       /\ HasKey(args, "priority") => GetItem(args, "priority").t = "int"

MatchesEveryFilter(row, args) ==
    /\ HasKey(args, "due_date") => row.due_date = fromisoformat(GetItem(args, "due_date").s)
    /\ HasKey(args, "category_id") => row.category = GetItem(args, "category_id").n
    /\ HasKey(args, "priority") => row.priority = GetItem(args, "priority").n

C22_UpdatesExactlyTheMatching ==
    [][(VisitsCall /\ ValidStatusCall(CurrentCall)) =>
          LET args == ArgsOf(CurrentCall)
              hit == {i \in 1..Len(tasks) : tasks[i].user = user /\ MatchesEveryFilter(tasks[i], args)}
          IN  /\ Len(tasks') = Len(tasks)
              /\ \A i \in 1..Len(tasks) :
                    tasks'[i] = IF i \in hit
                                THEN [tasks[i] EXCEPT !.status = status_mapping(GetItem(args, "status"))]
                                ELSE tasks[i]
              /\ hit # {} => LastOf(tool_results').payload.count = Cardinality(hit)]_vars

(***************************************************************************)
(* The handlers and the date-range view on their own.  Each step is one    *)
(* call of execute_tool_call, or one GET of TaskListBetweenDatesView, on   *)
(* a table that earlier requests left behind; tool_results holds the       *)
(* entry of the last handler call and listed the last list.                *)
(***************************************************************************)
DateStrings == {"2025-01-01", "2025-01-02", "2025-1-3"}

\* Rows of u1 with every due date and none, and a row of u2.
HandlerRows ==
    {TaskRow("u1", "X", "", d, "", "", 0, "pending", 1) : d \in 0..3}
    \cup {TaskRow("u2", "X", "", 2, "", "", 0, "pending", 1)}

HandlerTables == {<<>>} \cup {<<r>> : r \in HandlerRows} \cup {<<r, q>> : r, q \in HandlerRows}

\* create_task with a title and nothing else.
CreateUndated == Call("create_task", Obj1("title", JStr("X")))

CreateCalls ==
    { CreateX, CreateUndated,
      Call("create_task", Obj2("title", JStr("X"), "due_date", D3)),
      Call("create_task", Obj2("title", JStr("X"), "due_date", JStr("tomorrow"))),
      Call("create_task", Obj1("due_date", D1)),
      Call("create_task", Obj0) }

StatusCalls == {SetCompleted}

RangeCalls ==
    {Call("search_tasks_by_date_range", Obj2("start_date", JStr(a), "end_date", JStr(b))) : a, b \in DateStrings}
    \cup {Call("search_tasks_by_date_range", Obj2("start_date", D1, "end_date", JStr("tomorrow")))}

\* The query parameters of the view: a string, or absent.
DateParams == {JStr(a) : a \in DateStrings} \cup {JStr("tomorrow"), JNull}

\* TaskListBetweenDatesView.get_queryset.  The rows the pipeline creates
\* have no assignee and no project, so Q(user) decides.
TaskListBetweenDatesView(u, start_date_str, end_date_str, rows) ==
    IF ~Truthy(start_date_str) \/ ~Truthy(end_date_str) THEN Found("ValidationError", {})
    ELSE LET start_date == strptime_date(start_date_str.s)
             end_date == strptime_date(end_date_str.s)
         IN  IF start_date = 0 \/ end_date = 0 THEN Found("ValidationError", {})
             ELSE IF start_date > end_date THEN Found("ValidationError", {})
             ELSE Found("", {i \in 1..Len(rows) :
                                /\ rows[i].user = u
                                /\ rows[i].due_date # 0
                                /\ start_date <= rows[i].due_date /\ rows[i].due_date <= end_date})

HandlersInit ==
    /\ tasks \in HandlerTables
    /\ tasks0 = tasks
    /\ activity = <<>>
    /\ activity0 = <<>>
    /\ runs = [u \in Users |-> NoRun]
    /\ NoAccounts
    /\ listed = NotListed
    /\ NoTeams
    /\ pc = "idle"
    /\ user = "u1"
    /\ response1 = NoText
    /\ response2 = NoText
    /\ tools_needed = JNull
    /\ tool_calls = JNull
    /\ idx = 0
    /\ tool_results = <<>>
    /\ dispatched = <<>>
    /\ final_raw = NoText
    /\ api_calls = <<>>
    /\ outcome = "none"
    /\ path = ""
    /\ exc = ""
    /\ response = NoResponse

\* What a direct call leaves alone.
bystanders ==
    <<pc, response1, response2, tools_needed, tool_calls, idx, dispatched, final_raw, api_calls, outcome,
      path, exc, response, tasks0, activity0, runs, accounts, teams>>

\* One call of a handler for u, as one iteration of the execution loop
\* makes it, with the entry it appends.
HandlerCall(u, call) ==
    \E step \in {execute_call(u, call, <<>>, tasks, activity)} :
    /\ Len(step.tasks) <= MaxTasks
    /\ user' = u
    /\ tasks' = step.tasks
    /\ activity' = step.activity
    /\ tool_results' = step.tool_results
    /\ listed' = NotListed

CallCreateTask(u, call) ==
    /\ HandlerCall(u, call)
    /\ UNCHANGED bystanders

CallSetTaskStatus(u, call) ==
    /\ HandlerCall(u, call)
    /\ UNCHANGED bystanders

CallSearchByDateRange(u, call) ==
    /\ HandlerCall(u, call)
    /\ UNCHANGED bystanders

ListBetweenDates(u, start_date_str, end_date_str) ==
    /\ user' = u
    /\ listed' = TaskListBetweenDatesView(u, start_date_str, end_date_str, tasks)
    /\ tool_results' = <<>>
    /\ UNCHANGED <<db, bystanders>>

HandlersNext ==
    \/ \E u \in Users, call \in CreateCalls : CallCreateTask(u, call)
    \/ \E u \in Users, call \in StatusCalls : CallSetTaskStatus(u, call)
    \/ \E u \in Users, call \in RangeCalls : CallSearchByDateRange(u, call)
    \/ \E u \in Users, start_date_str, end_date_str \in DateParams : ListBetweenDates(u, start_date_str, end_date_str)

HandlersSpec == HandlersInit /\ [][HandlersNext]_vars

(***************************************************************************)
(* C23.  create_task requires a title and a due date: a create_task call   *)
(* without a due_date argument creates no Task row and returns an error    *)
(* result.                                                                 *)
(* Violated: only kwargs['title'] is required by the handler; without      *)
(* due_date the row is created with due_date NULL and the call answers     *)
(* success.                                                                *)
(***************************************************************************)
C23_CreateNeedsDueDate ==
    [][\A u \in Users, call \in CreateCalls :
          (CallCreateTask(u, call) /\ ~HasKey(ArgsOf(call), "due_date")) =>
              /\ tasks' = tasks
              /\ LastOf(tool_results').payload.status = "error"]_vars

(***************************************************************************)
(* C24.  A date-range query with start <= end answers with exactly the     *)
(* user's rows whose due_date lies in [start, end], both ends included     *)
(* and rows without due date excluded, and changes no Task row; a query    *)
(* with end before start is answered with an error.  This holds of the     *)
(* search_tasks_by_date_range handler and of TaskListBetweenDatesView.     *)
(* Violated in the handler: it validates the dates with strptime, which    *)
(* accepts "2025-1-3", and filters with date.fromisoformat, which does     *)
(* not; search_tasks then skips the range filter and every row of the      *)
(* user is counted.                                                        *)
(***************************************************************************)
InRange(u, rows, start, end) ==
    {i \in 1..Len(rows) : rows[i].user = u /\ rows[i].due_date # 0
                          /\ start <= rows[i].due_date /\ rows[i].due_date <= end}

C24_ClosedInterval ==
    [][/\ \A u \in Users, call \in RangeCalls :
             LET start == strptime_date(GetItem(ArgsOf(call), "start_date").s)
                 end == strptime_date(GetItem(ArgsOf(call), "end_date").s)
                 answer == LastOf(tool_results').payload
             IN  (CallSearchByDateRange(u, call) /\ start # 0 /\ end # 0) =>
                     /\ tasks' = tasks
                     /\ IF start <= end
                        THEN answer.status = "success" /\ answer.count = Cardinality(InRange(u, tasks, start, end))
                        ELSE answer.status = "error"
       /\ \A u \in Users, a, b \in DateStrings :
             LET start == strptime_date(a)
                 end == strptime_date(b)
             IN  ListBetweenDates(u, JStr(a), JStr(b)) =>
                     /\ tasks' = tasks
                     /\ IF start <= end
                        THEN listed'.exc = "" /\ listed'.ids = InRange(u, tasks, start, end)
                        ELSE listed'.exc = "ValidationError"]_vars

(***************************************************************************)
(* The teams views.  A Team row is its id; a TeamMembership row is         *)
(* (team, user, role), unique in (user, team), and the detail view         *)
(* addresses it by the team and the member.  Each view is an operator      *)
(* from the request and the tables to the response and the tables after    *)
(* it; a request is served in one step.                                    *)
(***************************************************************************)
TeamIds == {1, 2}

TeamUsers == {"u1", "u2", "u3"}

ROLE_CHOICES == {"member", "admin"}

Membership(team, member, role) == [team |-> team, user |-> member, role |-> role]

AdminsOf(rows, team) == {m \in rows : m.team = team /\ m.role = "admin"}

\* TeamMembership.objects.filter(team_id=, user=).exists()
IsMember(team, member) == \E m \in memberships : m.team = team /\ m.user = member

\* request.user.teammembership_set.filter(team=, role='admin').exists()
IsAdmin(team, member) == Membership(team, member, "admin") \in memberships

\* A response, and the tables after the request.
TeamServed(status, detail, rows_after, memberships_after, invitations_after) ==
    [status |-> status, detail |-> detail, team_rows |-> rows_after, memberships |-> memberships_after,
     invitations |-> invitations_after]

\* A response that changes no table.
TeamRefused(status, detail) == TeamServed(status, detail, team_rows, memberships, invitations)

\* POST teams/: TeamSerializer.create makes the team and its creator's
\* admin membership.
TeamSerializer_create(requester, team) ==
    TeamServed(201, "created", team_rows \cup {team},
               memberships \cup {Membership(team, requester, "admin")}, invitations)

\* DELETE teams/<pk>/: the memberships and invitations go with the team.
TeamDetail_perform_destroy(requester, team) ==
    IF team \notin team_rows THEN TeamRefused(404, "Not found.")
    ELSE IF ~IsAdmin(team, requester) THEN TeamRefused(403, "Only team admins can delete teams")
    ELSE TeamServed(204, "", team_rows \ {team},
                    {m \in memberships : m.team # team}, {i \in invitations : i.team # team})

\* POST teams/<team_id>/members/ with the email of `member` and a role.
MembershipList_perform_create(requester, team, member, role) ==
    IF team \notin team_rows THEN TeamRefused(404, "Not found.")
    ELSE IF ~IsAdmin(team, requester) THEN TeamRefused(403, "Only team admins can add members")
    ELSE IF IsMember(team, member) THEN TeamRefused(500, "IntegrityError")
    ELSE TeamServed(201, "created", team_rows, memberships \cup {Membership(team, member, role)}, invitations)

\* get_object of the detail view: the requester must be a member of the
\* team, and the membership addressed must be one of the team.
MembershipDetail_get_object(requester, team, member) ==
    IF ~IsMember(team, requester) THEN TeamRefused(403, "You are not a member of this team")
    ELSE IF ~IsMember(team, member) THEN TeamRefused(404, "Not found.")
    ELSE TeamRefused(200, "")

\* perform_update as it would be without the last-admin check.
MembershipDetail_perform_update_unguarded(requester, team, member, role) ==
    LET found == MembershipDetail_get_object(requester, team, member) IN
    IF found.status # 200 THEN found
    ELSE IF ~IsAdmin(team, requester) THEN TeamRefused(403, "Only team admins can modify memberships")
    ELSE TeamServed(200, "", team_rows,
                    {m \in memberships : ~(m.team = team /\ m.user = member)}
                        \cup {Membership(team, member, role)},
                    invitations)

\* PUT or PATCH teams/<team_id>/members/<pk>/ with a role.
MembershipDetail_perform_update(requester, team, member, role) ==
    LET found == MembershipDetail_get_object(requester, team, member)
        admin_count == Cardinality(AdminsOf(memberships, team))
    IN  IF found.status # 200 THEN found
        ELSE IF ~IsAdmin(team, requester) THEN TeamRefused(403, "Only team admins can modify memberships")
        ELSE IF IsAdmin(team, member) /\ admin_count <= 1 /\ role # "admin"
        THEN TeamRefused(403, "Cannot demote the last admin")
        ELSE TeamServed(200, "", team_rows,
                        {m \in memberships : ~(m.team = team /\ m.user = member)}
                            \cup {Membership(team, member, role)},
                        invitations)

\* DELETE teams/<team_id>/members/<pk>/.
MembershipDetail_perform_destroy(requester, team, member) ==
    LET found == MembershipDetail_get_object(requester, team, member)
        admin_count == Cardinality(AdminsOf(memberships, team))
    IN  IF found.status # 200 THEN found
        ELSE IF ~IsAdmin(team, requester) THEN TeamRefused(403, "Only team admins can remove members")
        ELSE IF IsAdmin(team, member) /\ admin_count <= 1
        THEN TeamRefused(403, "Cannot remove the last admin")
        ELSE TeamServed(204, "", team_rows,
                        {m \in memberships : ~(m.team = team /\ m.user = member)}, invitations)

outside_teams == <<db, tasks0, activity0, request, runs, accounts, listed>>

\* The request is served: the tables become what the view left.
TeamServe(served) ==
    /\ team_rows' = served.team_rows
    /\ memberships' = served.memberships
    /\ invitations' = served.invitations

CreateTeam(requester, team) ==
    /\ team \notin team_rows
    /\ TeamServe(TeamSerializer_create(requester, team))
    /\ UNCHANGED <<inflight, outside_teams>>

DeleteTeam(requester, team) ==
    /\ TeamServe(TeamDetail_perform_destroy(requester, team))
    /\ UNCHANGED <<inflight, outside_teams>>

AddMember(requester, team, member, role) ==
    /\ TeamServe(MembershipList_perform_create(requester, team, member, role))
    /\ UNCHANGED <<inflight, outside_teams>>

UpdateMembership(requester, team, member, role) ==
    /\ TeamServe(MembershipDetail_perform_update(requester, team, member, role))
    /\ UNCHANGED <<inflight, outside_teams>>

RemoveMembership(requester, team, member) ==
    /\ TeamServe(MembershipDetail_perform_destroy(requester, team, member))
    /\ UNCHANGED <<inflight, outside_teams>>

TeamsNext ==
    \/ \E requester \in TeamUsers, team \in TeamIds : CreateTeam(requester, team)
    \/ \E requester \in TeamUsers, team \in TeamIds : DeleteTeam(requester, team)
    \/ \E requester, member \in TeamUsers, team \in TeamIds, role \in ROLE_CHOICES :
          AddMember(requester, team, member, role)
    \/ \E requester, member \in TeamUsers, team \in TeamIds, role \in ROLE_CHOICES :
          UpdateMembership(requester, team, member, role)
    \/ \E requester, member \in TeamUsers, team \in TeamIds : RemoveMembership(requester, team, member)

TeamsSpec == Init /\ [][TeamsNext]_vars

(***************************************************************************)
(* C25.  Every team keeps at least one admin: after any sequence of role   *)
(* updates and removals through TeamMembershipDetailView (and of team      *)
(* creations, deletions and member additions between them) each existing   *)
(* team has a TeamMembership with role admin; a request that would demote  *)
(* or remove the only admin of a team is answered 403 PermissionDenied     *)
(* and changes nothing.                                                    *)
(***************************************************************************)
OnlyAdmin(team, member) == AdminsOf(memberships, team) = {Membership(team, member, "admin")}

LastAdminRefused ==
    \A requester, member \in TeamUsers, team \in team_rows :
        OnlyAdmin(team, member) =>
            LET demoted == MembershipDetail_perform_update(requester, team, member, "member")
                removed == MembershipDetail_perform_destroy(requester, team, member)
            IN  /\ demoted.status = 403 /\ demoted.memberships = memberships /\ demoted.team_rows = team_rows
                /\ removed.status = 403 /\ removed.memberships = memberships /\ removed.team_rows = team_rows
                /\ requester = member =>
                      /\ demoted.detail = "Cannot demote the last admin"
                      /\ removed.detail = "Cannot remove the last admin"

C25_TeamKeepsAnAdmin ==
    [][/\ LastAdminRefused
       /\ \A team \in team_rows' : AdminsOf(memberships', team) # {}]_vars

\* A team has one admin and a plain member beside it, and the admin's
\* requests to demote or to remove itself are refused.
C25_Witness ==
    \E team \in team_rows, admin, member \in TeamUsers :
        /\ OnlyAdmin(team, admin)
        /\ Membership(team, member, "member") \in memberships
        /\ MembershipDetail_perform_update(admin, team, admin, "member").detail = "Cannot demote the last admin"
        /\ MembershipDetail_perform_destroy(admin, team, admin).detail = "Cannot remove the last admin"

(***************************************************************************)
(* TeamMembershipDetailView under concurrent requests.  The view runs in   *)
(* no transaction and takes no lock: its permission checks and its         *)
(* admin_count query are SELECTs, and serializer.save() or                 *)
(* instance.delete() is a later statement, so the statements of another    *)
(* request can run in between.  A request that passed its checks waits in  *)
(* inflight for its write.                                                 *)
(***************************************************************************)
MaxInflight == 2

MembershipRequest(requester, team, member, op, role) ==
    [requester |-> requester, team |-> team, user |-> member, op |-> op, role |-> role]

\* The memberships of team 1 that requests served one at a time leave: some
\* of the users are members, at least one of them an admin.
ConcMemberships ==
    {rows \in SUBSET {Membership(1, u, role) : u \in TeamUsers, role \in ROLE_CHOICES} :
        /\ \A m, n \in rows : m.user = n.user => m = n
        /\ AdminsOf(rows, 1) # {}}

TeamsConcInit ==
    /\ team_rows = {1}
    /\ memberships \in ConcMemberships
    /\ invitations = {}
    /\ inflight = {}
    /\ tasks = <<>>
    /\ tasks0 = <<>>
    /\ activity = <<>>
    /\ activity0 = <<>>
    /\ runs = [u \in Users |-> NoRun]
    /\ NoAccounts
    /\ listed = NotListed
    /\ pc = "idle"
    /\ user = "u1"
    /\ response1 = NoText
    /\ response2 = NoText
    /\ tools_needed = JNull
    /\ tool_calls = JNull
    /\ idx = 0
    /\ tool_results = <<>>
    /\ dispatched = <<>>
    /\ final_raw = NoText
    /\ api_calls = <<>>
    /\ outcome = "none"
    /\ path = ""
    /\ exc = ""
    /\ response = NoResponse

\* A user has one request running at a time.
MayBegin(requester) ==
    /\ Cardinality(inflight) < MaxInflight
    /\ \A r \in inflight : r.requester # requester

\* perform_update up to serializer.save(): every check passed.
CheckUpdate(requester, team, member, role) ==
    /\ MayBegin(requester)
    /\ MembershipDetail_perform_update(requester, team, member, role).status = 200
    /\ inflight' = inflight \cup {MembershipRequest(requester, team, member, "update", role)}
    /\ UNCHANGED <<team_rows, memberships, invitations, outside_teams>>

\* perform_destroy up to instance.delete(): every check passed.
CheckDestroy(requester, team, member) ==
    /\ MayBegin(requester)
    /\ MembershipDetail_perform_destroy(requester, team, member).status = 204
    /\ inflight' = inflight \cup {MembershipRequest(requester, team, member, "destroy", "")}
    /\ UNCHANGED <<team_rows, memberships, invitations, outside_teams>>

\* serializer.save(): Model.save() of the instance loaded before, an UPDATE
\* by primary key, and an INSERT of the row when the UPDATE matched none.
WriteUpdate(r) ==
    /\ r \in inflight /\ r.op = "update"
    /\ memberships' = {m \in memberships : ~(m.team = r.team /\ m.user = r.user)}
                          \cup {Membership(r.team, r.user, r.role)}
    /\ inflight' = inflight \ {r}
    /\ UNCHANGED <<team_rows, invitations, outside_teams>>

\* instance.delete(): a DELETE by primary key.
WriteDestroy(r) ==
    /\ r \in inflight /\ r.op = "destroy"
    /\ memberships' = {m \in memberships : ~(m.team = r.team /\ m.user = r.user)}
    /\ inflight' = inflight \ {r}
    /\ UNCHANGED <<team_rows, invitations, outside_teams>>

MembershipRequests ==
    {MembershipRequest(requester, team, member, "update", role) :
        requester \in TeamUsers, team \in TeamIds, member \in TeamUsers, role \in ROLE_CHOICES}
    \cup {MembershipRequest(requester, team, member, "destroy", "") :
        requester \in TeamUsers, team \in TeamIds, member \in TeamUsers}

TeamsConcNext ==
    \/ \E requester, member \in TeamUsers, team \in TeamIds, role \in ROLE_CHOICES :
          CheckUpdate(requester, team, member, role)
    \/ \E requester, member \in TeamUsers, team \in TeamIds : CheckDestroy(requester, team, member)
    \/ \E r \in MembershipRequests : WriteUpdate(r)
    \/ \E r \in MembershipRequests : WriteDestroy(r)

TeamsConcSpec == TeamsConcInit /\ [][TeamsConcNext]_vars

(***************************************************************************)
(* C26.  The last-admin guarantee holds under concurrent requests: when    *)
(* two admins of a team demote or remove each other at the same time,      *)
(* each request's checks and write interleaved with the other's, the team  *)
(* ends with at least one admin.                                           *)
(* Violated: both requests count two admins before either writes, and      *)
(* both writes go through.                                                 *)
(***************************************************************************)
C26_AdminSurvivesRace ==
    inflight = {} => \A team \in team_rows : AdminsOf(memberships, team) # {}

(***************************************************************************)
(* The invitation views.  A TeamInvitation row is (token, team, email,     *)
(* user, status); a registered user's email is written as the user, and    *)
(* user "" is NULL.  The rows are unique in (team, email, status) and in   *)
(* the token.                                                              *)
(***************************************************************************)
MaxInvitations == 1

InvitationTokens == 1..MaxInvitations

\* The registered users' emails, and one that belongs to no user.
InviteEmails == TeamUsers \cup {"nobody"}

INVITATION_STATUS_CHOICES == {"pending", "accepted", "rejected"}

Invitation(token, team, email, invited, status) ==
    [token |-> token, team |-> team, email |-> email, user |-> invited, status |-> status]

\* The row would repeat (team, email, status) of another row.
Duplicates(row) ==
    \E i \in invitations : i.token # row.token /\ i.team = row.team /\ i.email = row.email /\ i.status = row.status

\* POST teams/<team_id>/invitations/ with an email; the serializer draws the
\* token and resolves the email to a user when one has it.
InvitationList_perform_create(requester, team, email, token) ==
    LET row == Invitation(token, team, email, IF email \in TeamUsers THEN email ELSE "", "pending") IN
    IF team \notin team_rows THEN TeamRefused(404, "Not found.")
    ELSE IF ~IsAdmin(team, requester) THEN TeamRefused(403, "Only team admins can send invitations")
    ELSE IF Duplicates(row) THEN TeamRefused(400, "Pending invitation already exists for this email")
    ELSE TeamServed(201, "created", team_rows, memberships, invitations \cup {row})

\* get_object of the invitation detail view.
InvitationDetail_get_object(requester, team, token) ==
    IF ~IsMember(team, requester) THEN TeamRefused(403, "You are not a member of this team")
    ELSE IF ~\E i \in invitations : i.team = team /\ i.token = token THEN TeamRefused(404, "Not found.")
    ELSE TeamRefused(200, "")

\* PUT or PATCH teams/<team_id>/invitations/<pk>/ with a status.  The
\* membership the view creates on "accepted" is the requester's.
InvitationDetail_perform_update(requester, team, token, status) ==
    LET found == InvitationDetail_get_object(requester, team, token) IN
    IF found.status # 200 THEN found
    ELSE LET instance == CHOOSE i \in invitations : i.team = team /\ i.token = token
             is_admin == IsAdmin(team, requester)
             is_invited_user == instance.user = requester
             joined == IF status = "accepted" /\ ~IsMember(team, requester)
                       THEN memberships \cup {Membership(team, requester, "member")}
                       ELSE memberships
             saved == [instance EXCEPT !.status = status]
         IN  IF ~(is_admin \/ is_invited_user)
             THEN TeamRefused(403, "Only team admins or invited users can modify invitations")
             ELSE IF Duplicates(saved) THEN TeamServed(500, "IntegrityError", team_rows, joined, invitations)
             ELSE TeamServed(200, "", team_rows, joined, (invitations \ {instance}) \cup {saved})

\* DELETE teams/<team_id>/invitations/<pk>/.
InvitationDetail_perform_destroy(requester, team, token) ==
    LET found == InvitationDetail_get_object(requester, team, token) IN
    IF found.status # 200 THEN found
    ELSE LET instance == CHOOSE i \in invitations : i.team = team /\ i.token = token IN
         IF ~(IsAdmin(team, requester) \/ instance.user = requester)
         THEN TeamRefused(403, "Only team admins or invited users can delete invitations")
         ELSE TeamServed(204, "", team_rows, memberships, invitations \ {instance})

\* POST teams/invitations/accept/<token>/ by an authenticated user.
accept_invitation(requester, token) ==
    IF ~\E i \in invitations : i.token = token /\ i.status = "pending"
    THEN TeamRefused(404, "Invalid or expired invitation token")
    ELSE LET invitation == CHOOSE i \in invitations : i.token = token /\ i.status = "pending"
             saved == [invitation EXCEPT !.status = "accepted", !.user = requester]
         IN  IF requester # invitation.email THEN TeamRefused(400, "Email mismatch")
             ELSE IF IsMember(invitation.team, requester) THEN TeamRefused(400, "Already a team member")
             ELSE IF Duplicates(saved) THEN TeamRefused(500, "IntegrityError")
             ELSE TeamServed(200, "Invitation accepted successfully", team_rows,
                             memberships \cup {Membership(invitation.team, requester, "member")},
                             (invitations \ {invitation}) \cup {saved})

CreateInvitation(requester, team, email, token) ==
    /\ \A i \in invitations : i.token # token
    /\ TeamServe(InvitationList_perform_create(requester, team, email, token))
    /\ UNCHANGED <<inflight, outside_teams>>

UpdateInvitation(requester, team, token, status) ==
    /\ TeamServe(InvitationDetail_perform_update(requester, team, token, status))
    /\ UNCHANGED <<inflight, outside_teams>>

DeleteInvitation(requester, team, token) ==
    /\ TeamServe(InvitationDetail_perform_destroy(requester, team, token))
    /\ UNCHANGED <<inflight, outside_teams>>

AcceptInvitation(requester, token) ==
    /\ TeamServe(accept_invitation(requester, token))
    /\ UNCHANGED <<inflight, outside_teams>>

InvitationsNext ==
    \/ \E requester \in TeamUsers, team \in TeamIds : CreateTeam(requester, team)
    \/ \E requester \in TeamUsers, team \in TeamIds : DeleteTeam(requester, team)
    \/ \E requester, member \in TeamUsers, team \in TeamIds, role \in ROLE_CHOICES :
          AddMember(requester, team, member, role)
    \/ \E requester, member \in TeamUsers, team \in TeamIds : RemoveMembership(requester, team, member)
    \/ \E requester \in TeamUsers, team \in TeamIds, email \in InviteEmails, token \in InvitationTokens :
          CreateInvitation(requester, team, email, token)
    \/ \E requester \in TeamUsers, team \in TeamIds, token \in InvitationTokens,
          status \in INVITATION_STATUS_CHOICES : UpdateInvitation(requester, team, token, status)
    \/ \E requester \in TeamUsers, team \in TeamIds, token \in InvitationTokens :
          DeleteInvitation(requester, team, token)
    \/ \E requester \in TeamUsers, token \in InvitationTokens : AcceptInvitation(requester, token)

InvitationsSpec == Init /\ [][InvitationsNext]_vars

(***************************************************************************)
(* C27.  Whenever a TeamInvitation takes the status accepted, through      *)
(* accept_invitation or through an update by TeamInvitationDetailView,     *)
(* the user whose email the invitation names holds a TeamMembership in     *)
(* the invitation's team at that moment.                                   *)
(* Violated: the detail view lets an admin set the status, and the         *)
(* membership it would create is the requester's, never the invited        *)
(* user's.                                                                 *)
(***************************************************************************)
C27_AcceptedMeansMember ==
    [][\A now \in invitations' :
          (now.status = "accepted"
           /\ ~\E before \in invitations : before.token = now.token /\ before.status = "accepted") =>
              \E m \in memberships' : m.team = now.team /\ m.user = now.email]_vars

====
